---- MODULE Spec2Model ----
(***************************************************************************)
(* rpc-rproxy: the streaming JSON value separator (pkg/json/json.go,       *)
(* JsonStreamLexer) and the per-connection pump that drives two of them    *)
(* (pkg/proxy/proxy.go, JsonReverseProxy).                                 *)
(*                                                                         *)
(* Bytes are one-character strings.  Buffer indices are the Go indices     *)
(* (0-based); the byte at Go index i of a lexer l is l.buffer[i + 1].      *)
(* The field buffer holds the valid region buffer[0 .. length) only: no    *)
(* code path reads a byte at or beyond length (NextObject scans up to      *)
(* length, the compaction copies [cursor, length), Read overwrites from    *)
(* length on), so the bytes between length and capacity are not state.     *)
(***************************************************************************)
EXTENDS Integers, Sequences, FiniteSets, TLC

\* ------------------------------------------------------------------ bounds

\* longest source stream enumerated exhaustively for the stand-alone splitter
MaxStream == 3
\* total number of tokens (a value, a separator or a stray closer) the two
\* peers of a proxied connection send
MaxTokens == 3
\* the -buffer and -max-read settings the splitters are created with
BufferSize == 2
MaxRead == 4
\* most errCb calls followed for one DecodeAll call
MaxErrs == 2
\* most polls of a fired token followed for one DecodeAll call
MaxPolls == 1

\* ------------------------------------------------------- byte classification

\* isWhitespace with the space only
isWhitespaceSpace == {" "}

\* json.go:357
isWhitespace == {" ", "\n", "\r", "\t"}
\* isStructural without the quote
isStructuralBrackets == {"{", "}", "[", "]"}

\* json.go:358
isStructural == {"{", "}", "[", "]", "\""}

\* policy defaults set by NewJsonStreamLexer
DefaultMaxDepth == 20
DefaultMaxStringLength == 999999
DefaultMaxArrayLength == 9999
DefaultMaxObjectLength == 9999

\* widths of the fixed-width counters of NextObject (uint8, uint16)
Uint8 == 256
Uint16 == 65536

Min(a, b) == IF a < b THEN a ELSE b

\* -------------------------------------------------------------- the splitter

\* json.go:266-286; buffer holds the bytes buffer[0 : length], cap is
\* cap(l.buffer) and len is len(l.buffer)
NewJsonStreamLexer(bufferSize, maxRead, asyncCallbacks) ==
  [ buffer |-> << >>, cap |-> bufferSize, len |-> bufferSize, cursor |-> 0, length |-> 0,
    maxRead |-> maxRead, asyncCallbacks |-> asyncCallbacks,
    maxDepth |-> DefaultMaxDepth,
    maxStringLength |-> DefaultMaxStringLength,
    maxArrayLength |-> DefaultMaxArrayLength,
    maxObjectLength |-> DefaultMaxObjectLength ]

\* GrownCap with minCap taken without the chunk size
GrownCapNoChunk(l) ==
  LET bCap == l.cap
      remainingCap == bCap - l.length
      minCap == l.length
  IN  IF remainingCap < minCap
      THEN (IF bCap < minCap THEN minCap ELSE bCap * 2)
      ELSE bCap

\* GrownCap with the new capacity always minCap
GrownCapExact(l) ==
  LET bCap == l.cap
      remainingCap == bCap - l.length
      minCap == l.length + l.maxRead
  IN  IF remainingCap < minCap THEN minCap ELSE bCap

\* the capacity of the buffer after the growth step of Read (json.go:289-303)
GrownCap(l) ==
  LET bCap == l.cap
      remainingCap == bCap - l.length
      minCap == l.length + l.maxRead
  IN  IF remainingCap < minCap
      THEN (IF bCap < minCap THEN minCap ELSE bCap * 2)
      ELSE bCap

\* Kept with the copy into the new array one byte short
KeptShort(l) ==
  IF GrownCap(l) # l.cap
  THEN [i \in 1..l.length |-> IF i <= Min(l.len, l.length) - 1 THEN l.buffer[i] ELSE "NUL"]
  ELSE l.buffer

\* the bytes buffer[0 : length] after the growth step of Read: make gives an
\* array of zero bytes and copy(newBuffer, l.buffer) stores the len(l.buffer)
\* bytes of the old slice in it (json.go:300-302)
Kept(l) ==
  IF GrownCap(l) # l.cap
  THEN [i \in 1..l.length |-> IF i <= l.len THEN l.buffer[i] ELSE "NUL"]
  ELSE l.buffer

\* len(l.buffer) after the growth step of Read (json.go:300-302)
GrownLen(l) == IF GrownCap(l) # l.cap THEN GrownCap(l) ELSE l.len

\* ReadOk with the bytes stored at the front of the buffer
ReadOkFront(l, chunk) ==
  [l EXCEPT !.cap = GrownCap(l), !.buffer = chunk, !.length = Len(chunk),
            !.len = Len(chunk)]

\* Read when the source returns the bytes chunk and no error (json.go:288-315)
ReadOk(l, chunk) ==
  [l EXCEPT !.cap = GrownCap(l),
            !.buffer = Kept(l) \o chunk,
            !.length = l.length + Len(chunk),
            !.len = l.length + Len(chunk)]

\* Read when the source returns an error (with or without bytes): the bytes
\* land beyond length and length is not advanced (json.go:306-309)
ReadErr(l) == [l EXCEPT !.cap = GrownCap(l), !.buffer = Kept(l), !.len = GrownLen(l)]

\* ResErr with the position counted from 1
ResErrFromOne(err, arg) == [start |-> 0, end |-> 0, err |-> err, arg |-> arg + 1]

\* results of NextObject: (start, end, err); err = "nil" when there is none,
\* arg is the %d of the error message (a position or the violated limit)
ResOk(start, end) == [start |-> start, end |-> end, err |-> "nil", arg |-> 0]
ResErr(err, arg) == [start |-> 0, end |-> 0, err |-> err, arg |-> arg]

\* ScanInit with the depth counters starting at 1
ScanInitDeep ==
  [ inString |-> FALSE, escaped |-> FALSE, objectDepth |-> 1, arrayDepth |-> 1,
    stringLength |-> 0, arrayLength |-> 0, objectLength |-> 0 ]

\* ScanInit with the count of arrays starting at 1
ScanInitOneArray ==
  [ inString |-> FALSE, escaped |-> FALSE, objectDepth |-> 0, arrayDepth |-> 0,
    stringLength |-> 0, arrayLength |-> 1, objectLength |-> 0 ]

\* scanning state at the start of NextObject (json.go:362-375)
ScanInit ==
  [ inString |-> FALSE, escaped |-> FALSE, objectDepth |-> 0, arrayDepth |-> 0,
    stringLength |-> 0, arrayLength |-> 0, objectLength |-> 0 ]

\* one byte of the parse loop (json.go:403-480): the scanning state after byte
\* c at index i, or the result the loop returns at that byte
ScanByte(l, start, i, s, c) ==
  IF s.inString
  THEN LET n == s.stringLength + 1 IN
       IF n > l.maxStringLength THEN [ret |-> ResErr("string exceeds maximum length", l.maxStringLength)]
       ELSE IF s.escaped THEN [s |-> [s EXCEPT !.stringLength = n, !.escaped = FALSE]]
       ELSE IF c = "\\" THEN [s |-> [s EXCEPT !.stringLength = n, !.escaped = TRUE]]
       ELSE IF c = "\"" THEN [s |-> [s EXCEPT !.stringLength = 0, !.inString = FALSE]]
       ELSE [s |-> [s EXCEPT !.stringLength = n]]
  ELSE IF c \notin isStructural THEN [s |-> s]
  ELSE IF c = "\"" THEN [s |-> [s EXCEPT !.inString = TRUE]]
  ELSE IF c = "{" THEN
       LET d == (s.objectDepth + 1) % Uint8
           n == (s.objectLength + 1) % Uint16 IN
       IF d > l.maxDepth THEN [ret |-> ResErr("object exceeds maximum depth", l.maxDepth)]
       ELSE IF d = 1 /\ s.arrayDepth = 0
            THEN (IF n > l.maxObjectLength
                  THEN [ret |-> ResErr("object count exceeds maximum", l.maxObjectLength)]
                  ELSE [s |-> [s EXCEPT !.objectDepth = d, !.objectLength = n]])
            ELSE [s |-> [s EXCEPT !.objectDepth = d]]
  ELSE IF c = "[" THEN
       LET d == (s.arrayDepth + 1) % Uint8
           n == (s.arrayLength + 1) % Uint16 IN
       IF d > l.maxDepth THEN [ret |-> ResErr("array exceeds maximum depth", l.maxDepth)]
       ELSE IF n > l.maxArrayLength
            THEN [ret |-> ResErr("array length exceeds maximum", l.maxArrayLength)]
            ELSE [s |-> [s EXCEPT !.arrayDepth = d, !.arrayLength = n]]
  ELSE IF c = "}" THEN
       IF s.objectDepth = 0 THEN [ret |-> ResErr("unmatched closing bracket", i)]
       ELSE IF s.objectDepth - 1 = 0 /\ s.arrayDepth = 0 THEN [ret |-> ResOk(start, i)]
       ELSE [s |-> [s EXCEPT !.objectDepth = s.objectDepth - 1]]
  ELSE \* c = "]"
       IF s.arrayDepth = 0 THEN [ret |-> ResErr("unmatched closing bracket", i)]
       ELSE IF s.objectDepth = 0 /\ s.arrayDepth - 1 = 0 THEN [ret |-> ResOk(start, i)]
       ELSE [s |-> [s EXCEPT !.arrayDepth = s.arrayDepth - 1]]

RECURSIVE ScanRange(_, _, _, _, _)
\* the iterations of the parse loop over the bytes at indices lo .. hi-1
\* (json.go:402-480), entered with r = [s |-> the scanning state]; once an
\* iteration returns, r = [ret |-> the result] and the later bytes are not
\* looked at.  The range is cut in halves so that long buffers need no deep
\* recursion; the bytes are still taken in order.
ScanRange(l, start, lo, hi, r) ==
  IF "ret" \in DOMAIN r \/ lo >= hi THEN r
  ELSE IF hi = lo + 1 THEN ScanByte(l, start, lo, r.s, l.buffer[lo + 1])
  ELSE LET mid == (lo + hi) \div 2 IN
       ScanRange(l, start, mid, hi, ScanRange(l, start, lo, mid, r))

\* the parse loop from index i on (json.go:401-482)
ParseLoop(l, start, i, s) ==
  LET r == ScanRange(l, start, i, l.length, [s |-> s]) IN
    IF "ret" \in DOMAIN r THEN r.ret ELSE ResOk(start, -1)

RECURSIVE FindStart(_, _)
\* the search for the start of a value from index i on (json.go:377-399)
FindStart(l, i) ==
  IF i >= l.length THEN ResOk(l.cursor, -1)
  ELSE LET c == l.buffer[i + 1] IN
       IF c = "{" \/ c = "[" THEN ParseLoop(l, i, i, ScanInit)
       ELSE IF c = "}" \/ c = "]" THEN ResErr("unmatched closing bracket", i)
       ELSE IF c \notin isWhitespace THEN ResErr("unexpected character", i)
       ELSE FindStart(l, i + 1)

\* json.go:361-483
NextObject(l) == FindStart(l, l.cursor)

\* ------------------------------- NextObject built on the scanner primitives

\* the reference skipWhitespace (asm_generic.go:16-23): the offset of the
\* first byte that is not whitespace, len(buf) when there is none
skipWhitespace(buf) ==
  LET rest == {k \in 1..Len(buf) : buf[k] \notin isWhitespace} IN
    IF rest = {} THEN Len(buf)
    ELSE (CHOOSE k \in rest : \A m \in rest : k <= m) - 1

\* the reference findStructuralChar (asm_generic.go:7-14): the offset and the
\* value of the first structural byte, (-1, 0) when there is none
findStructuralChar(buf) ==
  LET found == {k \in 1..Len(buf) : buf[k] \in isStructural} IN
    IF found = {} THEN [offset |-> -1, char |-> "NUL"]
    ELSE LET k == CHOOSE k \in found : \A m \in found : k <= m IN
         [offset |-> k - 1, char |-> buf[k]]

\* the reference scanString (asm_generic.go:25-46): the bytes are counted from
\* 1 at every call; escaped is false on entry and is only set by the return,
\* so the loop stops at the first byte beyond maxLen, backslash or quote
scanString(buf, maxLen) ==
  LET stops == {k \in 1..Len(buf) : k > maxLen \/ buf[k] = "\\" \/ buf[k] = "\""} IN
    IF stops = {} THEN [endOffset |-> -1, escaped |-> FALSE, err |-> "nil"]
    ELSE LET k == CHOOSE k \in stops : \A m \in stops : k <= m IN
         IF k > maxLen
         THEN [endOffset |-> 0, escaped |-> FALSE, err |-> "string exceeds maximum length"]
         ELSE [endOffset |-> k, escaped |-> buf[k] = "\\", err |-> "nil"]

\* state and counters at the start of the primitive-based NextObject
\* (part_000:125-131)
PrimitiveInit ==
  [ inString |-> FALSE, escaped |-> FALSE, objectDepth |-> 0, arrayDepth |-> 0,
    arrayLength |-> 0, objectLength |-> 0 ]

\* the switch on the structural byte char found at offset i of
\* buffer[start:length] (part_000:177-222): the state after it, or the result
\* returned at it
PrimitiveSwitch(l, start, i, s, char) ==
  IF char = "\"" THEN [s |-> [s EXCEPT !.inString = TRUE]]
  ELSE IF char = "{" THEN
       LET d == (s.objectDepth + 1) % Uint8
           n == (s.objectLength + 1) % Uint16 IN
       IF d > l.maxDepth THEN [ret |-> ResErr("object exceeds maximum depth", l.maxDepth)]
       ELSE IF d = 1 /\ s.arrayDepth = 0
            THEN (IF n > l.maxObjectLength
                  THEN [ret |-> ResErr("object count exceeds maximum", l.maxObjectLength)]
                  ELSE [s |-> [s EXCEPT !.objectDepth = d, !.objectLength = n]])
            ELSE [s |-> [s EXCEPT !.objectDepth = d]]
  ELSE IF char = "[" THEN
       LET d == (s.arrayDepth + 1) % Uint8
           n == (s.arrayLength + 1) % Uint16 IN
       IF d > l.maxDepth THEN [ret |-> ResErr("array exceeds maximum depth", l.maxDepth)]
       ELSE IF n > l.maxArrayLength
            THEN [ret |-> ResErr("array length exceeds maximum", l.maxArrayLength)]
            ELSE [s |-> [s EXCEPT !.arrayDepth = d, !.arrayLength = n]]
  ELSE IF char = "}" THEN
       IF s.objectDepth = 0 THEN [ret |-> ResErr("unmatched closing bracket", start + i)]
       ELSE IF s.objectDepth - 1 = 0 /\ s.arrayDepth = 0 THEN [ret |-> ResOk(start, start + i)]
       ELSE [s |-> [s EXCEPT !.objectDepth = s.objectDepth - 1]]
  ELSE \* char = "]"
       IF s.arrayDepth = 0 THEN [ret |-> ResErr("unmatched closing bracket", start + i)]
       ELSE IF s.objectDepth = 0 /\ s.arrayDepth - 1 = 0 THEN [ret |-> ResOk(start, start + i)]
       ELSE [s |-> [s EXCEPT !.arrayDepth = s.arrayDepth - 1]]

RECURSIVE PrimitiveLoop(_, _, _, _)
\* the loop over buf = buffer[start:length] from offset i on
\* (part_000:153-225): 'for i := 0; i < len(buf); {' has no increment
\* clause; i moves by 'i += endOffset' inside a string and by
\* 'i += structOffset' up to the structural byte, and nothing moves it past
\* that byte after the switch
PrimitiveLoop(l, start, i, s) ==
  IF i >= l.length - start THEN ResOk(start, -1)
  ELSE LET rest == SubSeq(l.buffer, start + i + 1, l.length) IN
       IF s.inString
       THEN LET r == scanString(rest, l.maxStringLength) IN
            IF r.err # "nil" THEN ResErr(r.err, l.maxStringLength)
            ELSE IF r.endOffset = -1 THEN ResOk(start, -1)
            ELSE PrimitiveLoop(l, start, i + r.endOffset,
                               IF r.escaped THEN [s EXCEPT !.escaped = TRUE]
                                            ELSE [s EXCEPT !.inString = FALSE])
       ELSE LET f == findStructuralChar(rest) IN
            IF f.offset = -1 THEN ResOk(start, -1)
            ELSE LET r == PrimitiveSwitch(l, start, i + f.offset, s, f.char) IN
                 IF "ret" \in DOMAIN r THEN r.ret
                 ELSE PrimitiveLoop(l, start, i + f.offset, r.s)

\* the NextObject built on skipWhitespace, findStructuralChar and scanString
\* (part_000:124-226)
NextObjectPrimitive(l) ==
  LET buf == SubSeq(l.buffer, l.cursor + 1, l.length)
      offset == skipWhitespace(buf) IN
    IF offset = Len(buf) THEN ResOk(l.cursor, -1)
    ELSE IF buf[offset + 1] # "{" /\ buf[offset + 1] # "["
         THEN ResErr("unexpected character", l.cursor + offset)
         ELSE PrimitiveLoop(l, l.cursor + offset, 0, PrimitiveInit)

\* Compact with the copy starting one byte late
CompactLate(l) ==
  IF l.cursor > 0
  THEN [l EXCEPT !.buffer = SubSeq(l.buffer, l.cursor + 2, l.length) \o
                            (IF l.cursor < l.length THEN << " " >> ELSE << >>),
                 !.length = l.length - l.cursor,
                 !.cursor = 0]
  ELSE l

\* the buffer after the compaction that follows an emission (json.go:508-515),
\* applied to a lexer whose cursor is end+1
Compact(l) ==
  IF l.cursor > 0
  THEN [l EXCEPT !.buffer = SubSeq(l.buffer, l.cursor + 1, l.length),
                 !.length = l.length - l.cursor,
                 !.cursor = 0]
  ELSE l

\* the bytes buffer[start : end+1] handed to the callback (json.go:500-504)
Slice(l, start, end) == SubSeq(l.buffer, start + 1, end + 1)

\* ------------------------------------------------------------------ the pump

\* handleMessage's data = append(data, '\n') (proxy.go:301) on a slice that
\* borrows the splitter's buffer: the slice buffer[start : end+1] has capacity
\* cap - start, so when end+1 < cap the append writes '\n' in place at
\* buffer[end+1]; inside the valid region that byte is the first pending byte
AppendNewline(l, end) ==
  IF end + 1 < l.cap /\ end + 1 < l.length
  THEN [l EXCEPT !.buffer[end + 2] = "\n"]
  ELSE l

\* the bytes handleMessage hands to output.Write (proxy.go:301-302)
handleMessage(data) == data \o << "\n" >>

\* ------------------------------------------------------------------- state

\* the splitters: "lex" is a stand-alone splitter driven as in json_test.go;
\* "client" and "upstream" are clientDecoder and upstreamDecoder of one
\* connection (proxy.go:195-212)
Decoders == {"lex", "client", "upstream"}
Directions == {"client", "upstream"}
Sockets == {"client", "upstream"}

\* Output with each forwarder writing to the socket its splitter reads
OutputOwn(d) == d

\* the socket a direction writes to (proxy.go:236, 264)
Output(d) == IF d = "client" THEN "upstream" ELSE "client"

\* the cancellation scope a DecodeAll call is given (proxy.go:232)
Ctx(d) == IF d = "lex" THEN "lex" ELSE "conn"

\* the connection id (proxy.go:193)
ConnID == "conn_1"

VARIABLES
  lexer,            \* [Decoders -> JsonStreamLexer]
  dpc,              \* [Decoders -> position of the DecodeAll call]
  lastObjComplete,  \* [Decoders -> BOOLEAN], DecodeAll's local
  src,              \* [Decoders -> the reader: the bytes it will deliver, how many it has, how it ends]
  ctxDone,          \* [scope -> BOOLEAN], the cancellation token has fired
  emitted,          \* [Decoders -> the slices passed to cb, in call order]
  errs,             \* [Decoders -> the errors passed to errCb, in call order]
  tasks,            \* [Decoders -> the goroutines started by 'go cb(data)']
  writes,           \* [Decoders -> the completed calls of the destination's Write]
  polls,            \* [Decoders -> how often the select found the token fired]
  hpc,              \* position of handleConnection
  sockClosed,       \* [Sockets -> BOOLEAN], Close was called on the socket
  activeConnections,       \* the keys of the activeConnections map
  ActiveConnectionsCount,
  listenerOpen,     \* the listener has not been closed
  scan,             \* the direct calls of NextObject made so far: the buffer and the result of each
  hooks,            \* OnRequest and OnResponse are set
  observers,        \* [Decoders -> the goroutines started by 'go j.OnRequest(..., b)' and 'go j.OnResponse(..., b)']
  io,               \* the pairs << direction, socket >> of the Read and of the Write calls made so far
  clock,            \* what time.Now().UnixNano() returns
  conns             \* the calls of handleConnection, in the order of Accept: [st, id]

vars == << lexer, dpc, lastObjComplete, src, ctxDone, emitted, errs, tasks,
           writes, polls, hpc, sockClosed, activeConnections, ActiveConnectionsCount,
           listenerOpen, scan, hooks, observers, io, clock, conns >>

pumpVars == << lexer, dpc, lastObjComplete, src, ctxDone, emitted, errs, tasks, writes, polls,
               hooks, observers, io >>
lexVars == << pumpVars, clock, conns >>
\* what the steps of DecodeAll leave alone
ownVars == << hpc, sockClosed, activeConnections, ActiveConnectionsCount, listenerOpen, scan, hooks,
             clock, conns >>
connVars == << ownVars, io >>
proxyVars == << connVars, observers >>

\* --------------------------------------------------------------- the inputs

\* all byte sequences of length at most n over the alphabet A
Seqs(A, n) == UNION { [1..k -> A] : k \in 0..n }

\* bytes a peer of the stand-alone splitter sends: the structural bytes, the
\* escape, one whitespace byte and one other byte
LexAlphabet == {"{", "}", "[", "]", "\"", "\\", " ", "x"}

\* longer streams, after the inputs of json_test.go and the scenarios of the
\* specification: strings holding brackets and escaped quotes, values with and
\* without separators, leading whitespace, nested values, trailing garbage
LexCases ==
  { << "{", "\"", "}", "\"", "}" >>,
    << "{", "\"", "\\", "\"", "\"", "}" >>,
    << "{", "\"", "x", "\\" >>,
    << "{", "}", " ", "{", "}" >>,
    << "{", "}", "\n", "[", "]", "\n" >>,
    << "{", "x", "}", "{", "x", "}", "{", "x", "}" >>,
    << " ", " ", " ", "{", "x", "}" >>,
    << "[", "x", "{", "x", "}", "[", "x", "]", "]" >>,
    << "{", "[", "]", "}", "\t", "\r", "[", "{", "}", "]" >>,
    << "x", "{", "x", "}" >>,
    << "{", "x", "}", "}" >>,
    << "{", "{", "{", "x", "}", "}" >> }

LexStreams == Seqs(LexAlphabet, MaxStream) \cup LexCases

\* how a reader ends: "eof" returns (0, io.EOF) once the stream is delivered;
\* "eofdata" returns the last bytes together with io.EOF; "err" returns another
\* error; "open" blocks; "needmore" returns (0, io.ErrUnexpectedEOF)
LexModes == {"eof", "eofdata", "err", "open", "needmore"}
\* the peer of a socket closes it once it has sent its bytes ("eof"), resets
\* the connection then ("err"), or keeps it open
SocketModes == {"eof", "err", "open"}

\* what the peers of a proxied connection send: streams made of values,
\* separators and stray closers
ProxyTokens == { << "{", "}" >>, << " " >>, << "}" >> }

RECURSIVE Flatten(_)
Flatten(ts) == IF ts = << >> THEN << >> ELSE Head(ts) \o Flatten(Tail(ts))

\* the pairs (bytes the client sends, bytes the upstream sends)
ProxyStreams ==
  { << Flatten(p[1]), Flatten(p[2]) >> :
      p \in { q \in Seqs(ProxyTokens, MaxTokens) \X Seqs(ProxyTokens, MaxTokens) :
                Len(q[1]) + Len(q[2]) <= MaxTokens } }

NoReader == [stream |-> << >>, pos |-> 0, mode |-> "open"]

\* ------------------------------------------------------------------- Init

TypeOK ==
  /\ dpc \in [Decoders -> {"none", "select", "pb", "read", "pbeof", "returned"}]
  /\ lastObjComplete \in [Decoders -> BOOLEAN]
  /\ ctxDone \in [{"lex", "conn"} -> BOOLEAN]
  /\ hpc \in {"idle", "accepted", "pump", "done"}
  /\ sockClosed \in [Sockets -> BOOLEAN]
  /\ activeConnections \subseteq {ConnID}
  /\ ActiveConnectionsCount \in Int
  /\ listenerOpen \in BOOLEAN
  /\ \A d \in Decoders :
       /\ lexer[d].length = Len(lexer[d].buffer)
       /\ src[d].pos \in 0..Len(src[d].stream)

InitCommon ==
  /\ dpc = [d \in Decoders |-> "none"]
  /\ lastObjComplete = [d \in Decoders |-> TRUE]
  /\ ctxDone = [c \in {"lex", "conn"} |-> FALSE]
  /\ emitted = [d \in Decoders |-> << >>]
  /\ errs = [d \in Decoders |-> << >>]
  /\ tasks = [d \in Decoders |-> << >>]
  /\ writes = [d \in Decoders |-> << >>]
  /\ polls = [d \in Decoders |-> 0]
  /\ hpc = "idle"
  /\ sockClosed = [s \in Sockets |-> FALSE]
  /\ activeConnections = {}
  /\ ActiveConnectionsCount = 0
  /\ scan = << >>
  /\ observers = [d \in Decoders |-> << >>]
  /\ io = [reads |-> {}, writes |-> {}]
  /\ clock = 1
  /\ conns = << >>

\* the proxy after NewUnixUpstreamJsonRpcProxy, AddUnixSocketListener and
\* Listen (proxy.go:49-54, 129-174), with the bytes its peers will send
Init ==
  /\ InitCommon
  /\ listenerOpen = TRUE
  /\ hooks = FALSE
  /\ \E a \in BOOLEAN :
       lexer = [d \in Decoders |-> NewJsonStreamLexer(BufferSize, MaxRead, a)]
  /\ \E p \in ProxyStreams, mc \in SocketModes, mu \in SocketModes :
       src = [d \in Decoders |->
                IF d = "client" THEN [stream |-> p[1], pos |-> 0, mode |-> mc]
                ELSE IF d = "upstream" THEN [stream |-> p[2], pos |-> 0, mode |-> mu]
                ELSE NoReader]

\* a stand-alone splitter over a reader, DecodeAll about to be called
LexInit ==
  /\ InitCommon
  /\ listenerOpen = FALSE
  /\ hooks = FALSE
  /\ lexer = [d \in Decoders |-> NewJsonStreamLexer(BufferSize, MaxRead, FALSE)]
  /\ \E s \in LexStreams, m \in LexModes :
       src = [d \in Decoders |->
                IF d = "lex" THEN [stream |-> s, pos |-> 0, mode |-> m] ELSE NoReader]

\* ---------------------------------------------------------------- DecodeAll

\* the token after errCb or the forwarder calls cancelFn (proxy.go:250, 260,
\* 279, 288); the callbacks of the stand-alone splitter only record
cancelFn(d) == IF d \in Directions THEN [ctxDone EXCEPT !["conn"] = TRUE] ELSE ctxDone

\* the outcomes of a Write to the destination of d: it fails on a socket this
\* process closed, it may fail on a socket whose peer closes it, and succeeds
\* otherwise; the collector of the stand-alone splitter cannot fail
WriteOutcomes(d) ==
  IF d = "lex" THEN {TRUE}
  ELSE IF sockClosed[Output(d)] THEN {FALSE}
  ELSE IF src[Output(d)].mode \in {"eof", "err"} THEN BOOLEAN
  ELSE {TRUE}

\* what the callback of d delivers for the emitted bytes data: the pump's
\* callbacks forward handleMessage's bytes (proxy.go:236, 264), the collector
\* of the stand-alone splitter keeps the bytes
cbData(d, data) == IF d \in Directions THEN handleMessage(data) ELSE data

\* the splitter of d after a synchronous callback on buffer[start : end+1]
cbBuffer(d, l, end) == IF d \in Directions THEN AppendNewline(l, end) ELSE l

\* the socket the splitter of d was created on: clientDecoder on conn,
\* upstreamDecoder on upstream (proxy.go:195-212)
Input(d) == d

\* io after the splitter of d called Read on its reader (json.go:306)
ioRead(d) == IF d \in Directions THEN [io EXCEPT !.reads = @ \cup {<< d, Input(d) >>}] ELSE io

\* io after the forwarder of d called Write on its output (proxy.go:236, 264, 302)
ioWrite(d) == IF d \in Directions THEN [io EXCEPT !.writes = @ \cup {<< d, Output(d) >>}] ELSE io

\* the goroutine of 'go j.OnRequest(connID, decoderPair, b)' or of
\* 'go j.OnResponse(connID, decoderPair, b)' (proxy.go:255-257, 283-285): data
\* are the bytes of the emitted value, view the bytes the slice b holds now,
\* live says that b shares the array the splitter stores to, at is the index
\* of b[0] in that array, and seen holds what the observer read from b
Observer(data, live, at) ==
  [data |-> data, view |-> data, live |-> live, at |-> at, seen |-> << >>]

\* the observer o after bytes are stored from index idx on in the array of
\* the splitter (json.go:306, 512; proxy.go:301)
Stored(o, idx, bytes) ==
  IF ~o.live THEN o
  ELSE [o EXCEPT !.view =
          [j \in 1..Len(o.view) |->
             LET pos == o.at + j - 1 IN
               IF pos >= idx /\ pos < idx + Len(bytes)
               THEN bytes[pos - idx + 1] ELSE o.view[j]]]

\* the observers os after Read on the splitter l returned chunk: a Read that
\* allocates a new array leaves the old one to the slices that borrowed it
\* (json.go:294-302), otherwise the reader stores chunk at buffer[length:]
\* (json.go:306)
ObserversAfterRead(os, l, chunk) ==
  [i \in 1..Len(os) |->
     IF GrownCap(l) # l.cap THEN [os[i] EXCEPT !.live = FALSE]
     ELSE Stored(os[i], l.length, chunk)]

\* the observers os after the synchronous forwarder ran on buffer[start :
\* end+1] of l with Write outcome ok and processBuffer compacted the buffer
\* to after: append stores '\n' at buffer[end+1] when the slice has spare
\* capacity (proxy.go:301), the observer of this value is started on the
\* same slice (proxy.go:254-257, 283-285), and the copy of the pending bytes
\* goes to the front of the array (json.go:510-513)
ObserversAfterEmit(os, l, start, end, ok, after) ==
  LET appended == [i \in 1..Len(os) |->
                     IF end + 1 < l.cap THEN Stored(os[i], end + 1, << "\n" >>) ELSE os[i]]
      started == IF hooks /\ ok
                 THEN Append(appended, Observer(Slice(l, start, end), TRUE, start))
                 ELSE appended
  IN [i \in 1..Len(started) |-> Stored(started[i], 0, after.buffer)]

\* DecodeAll is called (json.go:318-319)
DecodeAllCall(d) ==
  /\ dpc[d] = "none"
  /\ dpc' = [dpc EXCEPT ![d] = "select"]
  /\ lastObjComplete' = [lastObjComplete EXCEPT ![d] = TRUE]

\* the select at the top of the loop (json.go:320-326): a fired token takes
\* the empty case <-context.Done(), falls out of the select, and the for loop
\* runs the select again; polls counts these rounds up to MaxPolls
DecodeSelect(d) ==
  /\ dpc[d] = "select"
  /\ IF ctxDone[Ctx(d)]
     THEN /\ polls' = [polls EXCEPT ![d] = Min(@ + 1, MaxPolls)]
          /\ UNCHANGED dpc
     ELSE /\ dpc' = [dpc EXCEPT ![d] =
                       IF lexer[d].length > 0 /\ lastObjComplete[d] THEN "pb" ELSE "read"]
          /\ UNCHANGED polls
  /\ UNCHANGED << lexer, lastObjComplete, src, ctxDone, emitted, errs, tasks, writes >>
  /\ UNCHANGED proxyVars

\* processBuffer returns complete to DecodeAll: at json.go:325 the result is
\* stored and Read follows; at json.go:331 DecodeAll returns
pbReturn(d, complete) ==
  IF dpc[d] = "pb"
  THEN /\ dpc' = [dpc EXCEPT ![d] = "read"]
       /\ lastObjComplete' = [lastObjComplete EXCEPT ![d] = complete]
  ELSE /\ dpc' = [dpc EXCEPT ![d] = "returned"]
       /\ UNCHANGED lastObjComplete

\* processBuffer: the loop condition fails (json.go:487, 517)
PBDone(d) ==
  /\ dpc[d] \in {"pb", "pbeof"}
  /\ lexer[d].length = 0
  /\ pbReturn(d, TRUE)
  /\ UNCHANGED << lexer, src, ctxDone, emitted, errs, tasks, writes, polls >>
  /\ UNCHANGED proxyVars

\* processBuffer: NextObject fails (json.go:488-493)
PBError(d) ==
  /\ dpc[d] \in {"pb", "pbeof"}
  /\ lexer[d].length > 0
  /\ Len(errs[d]) < MaxErrs
  /\ LET r == NextObject(lexer[d]) IN
       /\ r.err # "nil"
       /\ errs' = [errs EXCEPT ![d] = Append(@, r.err)]
  /\ ctxDone' = cancelFn(d)
  /\ pbReturn(d, TRUE)
  /\ UNCHANGED << lexer, src, emitted, tasks, writes, polls >>
  /\ UNCHANGED proxyVars

\* PBNeedMore with the incomplete value reported to errCb
PBNeedMoreReported(d) ==
  /\ dpc[d] \in {"pb", "pbeof"}
  /\ lexer[d].length > 0
  /\ Len(errs[d]) < MaxErrs
  /\ LET r == NextObject(lexer[d]) IN r.err = "nil" /\ r.end = -1
  /\ errs' = [errs EXCEPT ![d] = Append(@, "unexpected end")]
  /\ pbReturn(d, FALSE)
  /\ UNCHANGED << lexer, src, ctxDone, emitted, tasks, writes, polls >>
  /\ UNCHANGED proxyVars

\* processBuffer: the value is not complete (json.go:494-496)
PBNeedMore(d) ==
  /\ dpc[d] \in {"pb", "pbeof"}
  /\ lexer[d].length > 0
  /\ LET r == NextObject(lexer[d]) IN r.err = "nil" /\ r.end = -1
  /\ pbReturn(d, FALSE)
  /\ UNCHANGED << lexer, src, ctxDone, emitted, errs, tasks, writes, polls >>
  /\ UNCHANGED proxyVars

\* processBuffer: a value is found and the callback runs in the caller's
\* context on the borrowed slice, then the buffer is compacted
\* (json.go:503-515); for a direction of the pump the callback is the
\* forwarder (proxy.go:235-257, 263-285)
PBEmitSync(d) ==
  /\ dpc[d] \in {"pb", "pbeof"}
  /\ lexer[d].length > 0
  /\ ~lexer[d].asyncCallbacks
  /\ LET l == lexer[d]
         r == NextObject(l)
     IN /\ r.err = "nil" /\ r.end # -1
        /\ emitted' = [emitted EXCEPT ![d] = Append(@, Slice(l, r.start, r.end))]
        /\ lexer' = [lexer EXCEPT ![d] =
                       Compact([cbBuffer(d, l, r.end) EXCEPT !.cursor = r.end + 1])]
        /\ \E ok \in WriteOutcomes(d) :
             /\ writes' = [writes EXCEPT ![d] =
                             Append(@, [k |-> Len(emitted[d]) + 1,
                                        data |-> cbData(d, Slice(l, r.start, r.end)),
                                        ok |-> ok])]
             /\ ctxDone' = IF ok THEN ctxDone ELSE cancelFn(d)
             /\ observers' = [observers EXCEPT ![d] =
                                IF d \in Directions
                                THEN ObserversAfterEmit(@, l, r.start, r.end, ok, lexer'[d])
                                ELSE @]
  /\ UNCHANGED << dpc, lastObjComplete, src, errs, tasks, polls >>
  /\ io' = ioWrite(d)
  /\ UNCHANGED ownVars

\* processBuffer: a value is found, copied and handed to a new goroutine
\* (json.go:498-502), then the buffer is compacted (json.go:508-515)
PBEmitAsync(d) ==
  /\ dpc[d] \in {"pb", "pbeof"}
  /\ lexer[d].length > 0
  /\ lexer[d].asyncCallbacks
  /\ LET l == lexer[d]
         r == NextObject(l)
     IN /\ r.err = "nil" /\ r.end # -1
        /\ emitted' = [emitted EXCEPT ![d] = Append(@, Slice(l, r.start, r.end))]
        /\ tasks' = [tasks EXCEPT ![d] =
                       Append(@, [data |-> Slice(l, r.start, r.end), st |-> "spawned"])]
        /\ lexer' = [lexer EXCEPT ![d] = Compact([l EXCEPT !.cursor = r.end + 1])]
  /\ UNCHANGED << dpc, lastObjComplete, src, ctxDone, errs, writes, polls >>
  /\ UNCHANGED proxyVars

\* a goroutine started by 'go cb(data)' runs the callback up to its call of
\* the destination's Write (proxy.go:236, 264, 302)
CbStart(d) ==
  /\ \E k \in 1..Len(tasks[d]) :
       /\ tasks[d][k].st = "spawned"
       /\ tasks' = [tasks EXCEPT ![d][k].st = "writing"]
  /\ UNCHANGED << lexer, dpc, lastObjComplete, src, ctxDone, emitted, errs, writes, polls >>
  /\ UNCHANGED proxyVars

\* the Write of such a goroutine completes and the callback returns
\* (proxy.go:237-257, 265-285, 302-304)
CbEnd(d) ==
  /\ \E k \in 1..Len(tasks[d]) :
       /\ tasks[d][k].st = "writing"
       /\ tasks' = [tasks EXCEPT ![d][k].st = "done"]
       /\ \E ok \in WriteOutcomes(d) :
            /\ writes' = [writes EXCEPT ![d] =
                            Append(@, [k |-> k, data |-> cbData(d, tasks[d][k].data),
                                       ok |-> ok])]
            /\ ctxDone' = IF ok THEN ctxDone ELSE cancelFn(d)
            /\ observers' = [observers EXCEPT ![d] =
                               IF hooks /\ ok /\ d \in Directions
                               THEN Append(@, Observer(tasks[d][k].data, FALSE, 0))
                               ELSE @]
  /\ UNCHANGED << lexer, dpc, lastObjComplete, src, emitted, errs, polls >>
  /\ io' = ioWrite(d)
  /\ UNCHANGED ownVars

\* an observer reads the slice it was given (proxy.go:38-39)
Observe(d) ==
  /\ \E i \in 1..Len(observers[d]) :
       /\ observers[d][i].seen = << >>
       /\ observers' = [observers EXCEPT ![d][i].seen = << observers[d][i].view >>]
  /\ UNCHANGED << lexer, dpc, lastObjComplete, src, ctxDone, emitted, errs, tasks, writes, polls >>
  /\ UNCHANGED connVars

\* the socket d reads from has been closed by this process
SourceClosed(d) == d \in Directions /\ sockClosed[d]

\* Read returns n bytes and no error (json.go:328, 341-344)
ReadData(d) ==
  /\ dpc[d] = "read"
  /\ ~SourceClosed(d)
  /\ \E n \in 1..Min(lexer[d].maxRead, Len(src[d].stream) - src[d].pos) :
       /\ src[d].mode = "eofdata" => src[d].pos + n < Len(src[d].stream)
       /\ lexer' = [lexer EXCEPT ![d] =
                      ReadOk(@, SubSeq(src[d].stream, src[d].pos + 1, src[d].pos + n))]
       /\ src' = [src EXCEPT ![d].pos = @ + n]
       /\ observers' = [observers EXCEPT ![d] =
                          ObserversAfterRead(@, lexer[d],
                                             SubSeq(src[d].stream, src[d].pos + 1, src[d].pos + n))]
  /\ lastObjComplete' = [lastObjComplete EXCEPT ![d] = TRUE]
  /\ dpc' = [dpc EXCEPT ![d] = "select"]
  /\ UNCHANGED << ctxDone, emitted, errs, tasks, writes, polls >>
  /\ io' = ioRead(d)
  /\ UNCHANGED ownVars

\* Read returns (0, io.EOF) (json.go:328-333)
ReadEOF(d) ==
  /\ dpc[d] = "read"
  /\ ~SourceClosed(d)
  /\ src[d].mode \in {"eof", "eofdata"}
  /\ src[d].pos = Len(src[d].stream)
  /\ lexer' = [lexer EXCEPT ![d] = ReadErr(@)]
  /\ observers' = [observers EXCEPT ![d] = ObserversAfterRead(@, lexer[d], << >>)]
  /\ dpc' = [dpc EXCEPT ![d] = "pbeof"]
  /\ UNCHANGED << lastObjComplete, src, ctxDone, emitted, errs, tasks, writes, polls >>
  /\ io' = ioRead(d)
  /\ UNCHANGED ownVars

\* the reader returns its last bytes together with io.EOF: Read returns
\* before it advances length (json.go:306-309, 330-333)
ReadDataEOF(d) ==
  /\ dpc[d] = "read"
  /\ ~SourceClosed(d)
  /\ src[d].mode = "eofdata"
  /\ src[d].pos < Len(src[d].stream)
  /\ Len(src[d].stream) - src[d].pos <= lexer[d].maxRead
  /\ lexer' = [lexer EXCEPT ![d] = ReadErr(@)]
  /\ src' = [src EXCEPT ![d].pos = Len(src[d].stream)]
  /\ dpc' = [dpc EXCEPT ![d] = "pbeof"]
  /\ UNCHANGED << lastObjComplete, ctxDone, emitted, errs, tasks, writes, polls >>
  /\ io' = ioRead(d)
  /\ UNCHANGED << ownVars, observers >>

\* Read returns an error that is neither io.EOF nor io.ErrUnexpectedEOF
\* (json.go:335-339); a read of a socket this process closed fails this way
ReadError(d) ==
  /\ dpc[d] = "read"
  /\ \/ SourceClosed(d)
     \/ src[d].mode = "err" /\ src[d].pos = Len(src[d].stream)
  /\ lexer' = [lexer EXCEPT ![d] = ReadErr(@)]
  /\ errs' = [errs EXCEPT ![d] = Append(@, "read error")]
  /\ ctxDone' = cancelFn(d)
  /\ dpc' = [dpc EXCEPT ![d] = "returned"]
  /\ UNCHANGED << lastObjComplete, src, emitted, tasks, writes, polls >>
  /\ io' = ioRead(d)
  /\ UNCHANGED << ownVars, observers >>

\* ReadNeedMore with io.ErrUnexpectedEOF taken for a real error
ReadNeedMoreFatal(d) ==
  /\ dpc[d] = "read"
  /\ ~SourceClosed(d)
  /\ src[d].mode = "needmore"
  /\ lexer' = [lexer EXCEPT ![d] = ReadErr(@)]
  /\ errs' = [errs EXCEPT ![d] = Append(@, "read error")]
  /\ dpc' = [dpc EXCEPT ![d] = "returned"]
  /\ UNCHANGED << lastObjComplete, src, ctxDone, emitted, tasks, writes, polls >>
  /\ io' = ioRead(d)
  /\ UNCHANGED << ownVars, observers >>

\* Read returns (0, io.ErrUnexpectedEOF) (json.go:335-344)
ReadNeedMore(d) ==
  /\ dpc[d] = "read"
  /\ ~SourceClosed(d)
  /\ src[d].mode = "needmore"
  /\ lexer' = [lexer EXCEPT ![d] = ReadErr(@)]
  /\ lastObjComplete' = [lastObjComplete EXCEPT ![d] = TRUE]
  /\ dpc' = [dpc EXCEPT ![d] = "select"]
  /\ UNCHANGED << src, ctxDone, emitted, errs, tasks, writes, polls >>
  /\ io' = ioRead(d)
  /\ UNCHANGED << ownVars, observers >>

\* the test cancels the context it passed to DecodeAll
LexCancel ==
  /\ dpc["lex"] # "none"
  /\ ~ctxDone["lex"]
  /\ ctxDone' = [ctxDone EXCEPT !["lex"] = TRUE]
  /\ UNCHANGED << lexer, dpc, lastObjComplete, src, emitted, errs, tasks, writes, polls >>
  /\ UNCHANGED proxyVars

\* the test calls DecodeAll on its splitter
LexCall ==
  /\ DecodeAllCall("lex")
  /\ UNCHANGED << lexer, src, ctxDone, emitted, errs, tasks, writes, polls >>
  /\ UNCHANGED proxyVars

DecodeAll(d) ==
  \/ DecodeSelect(d)
  \/ PBDone(d)
  \/ PBError(d)
  \/ PBNeedMore(d)
  \/ PBEmitSync(d)
  \/ ReadData(d)
  \/ ReadEOF(d)
  \/ ReadError(d)

\* ---------------------------------------------------------- the connection

\* acceptConnections: Accept returns a client and handleConnection is started
\* (proxy.go:176-189)
Accept ==
  /\ listenerOpen
  /\ hpc = "idle"
  /\ hpc' = "accepted"
  /\ UNCHANGED lexVars
  /\ UNCHANGED << sockClosed, activeConnections, ActiveConnectionsCount, listenerOpen, scan >>

\* handleConnection: the dial fails; the error is logged and the handler
\* returns (proxy.go:191-206)
HandleConnectionDialFail ==
  /\ hpc = "accepted"
  /\ hpc' = "done"
  /\ UNCHANGED lexVars
  /\ UNCHANGED << sockClosed, activeConnections, ActiveConnectionsCount, listenerOpen, scan >>

\* handleConnection: the dial succeeds; the pair is stored, the counter is
\* incremented, the scope is created, upstreamDecoder.DecodeAll is started in
\* a goroutine and clientDecoder.DecodeAll is called (proxy.go:191-235, 263)
HandleConnectionStart ==
  /\ hpc = "accepted"
  /\ hpc' = "pump"
  /\ activeConnections' = activeConnections \cup {ConnID}
  /\ ActiveConnectionsCount' = ActiveConnectionsCount + 1
  /\ dpc' = [d \in Decoders |-> IF d \in Directions THEN "select" ELSE dpc[d]]
  /\ lastObjComplete' = [d \in Decoders |-> IF d \in Directions THEN TRUE ELSE lastObjComplete[d]]
  /\ UNCHANGED << lexer, src, ctxDone, emitted, errs, tasks, writes, polls >>
  /\ UNCHANGED << sockClosed, listenerOpen, scan, hooks, observers, io, clock, conns >>

\* handleConnection: clientDecoder.DecodeAll has returned; the id is deleted
\* from the map and the counter is decremented (proxy.go:291-298)
HandleConnectionFinish ==
  /\ hpc = "pump"
  /\ dpc["client"] = "returned"
  /\ hpc' = "done"
  /\ activeConnections' = activeConnections \ {ConnID}
  /\ ActiveConnectionsCount' = ActiveConnectionsCount - 1
  /\ UNCHANGED lexVars
  /\ UNCHANGED << sockClosed, listenerOpen, scan >>

\* Shutdown: the listeners are closed, then both sockets of every connection
\* in the map (proxy.go:56-80)
Shutdown ==
  /\ listenerOpen
  /\ listenerOpen' = FALSE
  /\ sockClosed' = [s \in Sockets |-> sockClosed[s] \/ ConnID \in activeConnections]
  /\ UNCHANGED lexVars
  /\ UNCHANGED << hpc, activeConnections, ActiveConnectionsCount, scan >>

\* ------------------------------------------------------ the specifications

Next ==
  \/ Accept
  \/ HandleConnectionDialFail
  \/ HandleConnectionStart
  \/ HandleConnectionFinish
  \/ \E d \in Directions : DecodeAll(d)
  \/ \E d \in Directions : PBEmitAsync(d)
  \/ \E d \in Directions : CbStart(d)
  \/ \E d \in Directions : CbEnd(d)

\* one connection of the proxy, while Shutdown is not called
Spec == Init /\ [][Next]_vars

\* one connection of the proxy, with Shutdown
ShutdownSpec == Init /\ [][Next \/ Shutdown]_vars

\* the steps of the goroutines of the connection: the Go scheduler runs every
\* goroutine that can run, and a Read returns once its socket has bytes, an
\* end of file or an error for it; what the peers send is fixed by Init
FairSpec ==
  /\ Spec
  /\ WF_vars(HandleConnectionStart \/ HandleConnectionDialFail \/ HandleConnectionFinish)
  /\ \A d \in Directions :
       WF_vars(DecodeAll(d) \/ PBEmitAsync(d) \/ CbStart(d) \/ CbEnd(d))

LexNext ==
  \/ LexCall
  \/ LexCancel
  \/ DecodeAll("lex")
  \/ ReadDataEOF("lex")
  \/ ReadNeedMore("lex")

\* the stand-alone splitter
LexSpec == LexInit /\ [][LexNext]_vars

\* ------------------------------------------- NextObject called directly

\* longest buffer content enumerated exhaustively for the direct calls
ScanLen == 3
\* most direct calls of NextObject followed on one splitter
MaxCalls == 2

\* longer buffer contents, after the inputs of TestNextObject and
\* TestNextObjectErrors: strings of several lengths, repeated strings, closed
\* and nested arrays, mixed nesting, a stray closer inside a value
ScanCases ==
  { << "{", "\"", "\"", "}" >>,
    << "{", "\"", "x", "\"", "}" >>,
    << "{", "\"", "x", "x", "\"", "}" >>,
    << "{", "\"", "x", "x", "x", "\"", "}" >>,
    << "{", "\"", "x", "\"", "\"", "x", "\"", "}" >>,
    << "{", "\"", "\\", "\\", "\"", "}" >>,
    << "{", "\"", "[", "\\", "\"", "]", "\"", "}" >>,
    << "[", "[", "]", "[", "]", "]" >>,
    << "[", "[", "[", "]", "]", "]" >>,
    << "[", "]", "[", "]", "[", "]" >>,
    << "[", "\"", "[", "\"", "[", "]", "]" >>,
    << "{", "{", "{", "{", "x", "}", "}", "}", "}" >>,
    << "{", "[", "{", "[", "]", "}", "]", "}" >>,
    << "{", "[", "]", "]", "}" >>,
    << "{", "[", "}", "]" >>,
    << " ", "\n", "{", "x", "}", "x" >>,
    << "\t", "\r", "[", "]", "{", "}" >> }

ScanStreams == Seqs(LexAlphabet, ScanLen) \cup LexCases \cup ScanCases

\* the limits a test of the package sets on its splitter (json_test.go:120)
PolicyDepths == {1, 2, DefaultMaxDepth}
PolicyStringLengths == {1, 2, DefaultMaxStringLength}
PolicyArrayLengths == {1, 2, DefaultMaxArrayLength}

\* a splitter with its limits set, over a reader, as TestNextObject and
\* TestNextObjectErrors build it (json_test.go:58-60, 118-121)
PolicyInit ==
  /\ InitCommon
  /\ listenerOpen = FALSE
  /\ hooks = FALSE
  /\ \E md \in PolicyDepths, ms \in PolicyStringLengths, ma \in PolicyArrayLengths :
       lexer = [d \in Decoders |->
                  IF d = "lex"
                  THEN [NewJsonStreamLexer(BufferSize, MaxRead, FALSE)
                          EXCEPT !.maxDepth = md, !.maxStringLength = ms,
                                 !.maxArrayLength = ma]
                  ELSE NewJsonStreamLexer(BufferSize, MaxRead, FALSE)]
  /\ \E s \in ScanStreams :
       src = [d \in Decoders |->
                IF d = "lex" THEN [stream |-> s, pos |-> 0, mode |-> "open"] ELSE NoReader]

\* the test calls Read and the reader returns n bytes (json_test.go:60, 121)
ScanRead ==
  /\ \E n \in 1..Min(lexer["lex"].maxRead, Len(src["lex"].stream) - src["lex"].pos) :
       /\ lexer' = [lexer EXCEPT !["lex"] =
                      ReadOk(@, SubSeq(src["lex"].stream, src["lex"].pos + 1,
                                       src["lex"].pos + n))]
       /\ src' = [src EXCEPT !["lex"].pos = @ + n]
  /\ UNCHANGED << dpc, lastObjComplete, ctxDone, emitted, errs, tasks, writes, polls >>
  /\ UNCHANGED proxyVars

\* ScanNextObject with the cursor left where the scan found the value start
ScanNextObjectMoving ==
  /\ Len(scan) < MaxCalls
  /\ scan' = Append(scan, [buffer |-> lexer["lex"].buffer,
                           res |-> NextObject(lexer["lex"])])
  /\ lexer' = [lexer EXCEPT !["lex"].cursor =
                  IF NextObject(lexer["lex"]).err = "nil" THEN NextObject(lexer["lex"]).start ELSE @]
  /\ UNCHANGED << dpc, lastObjComplete, src, ctxDone, emitted, errs, tasks, writes, polls,
                  hooks, observers, io, clock, conns >>
  /\ UNCHANGED << hpc, sockClosed, activeConnections, ActiveConnectionsCount, listenerOpen >>

\* the test calls NextObject (json_test.go:62, 123): the splitter is left as
\* it is (NextObject assigns to locals only, json.go:361-483)
ScanNextObject ==
  /\ Len(scan) < MaxCalls
  /\ scan' = Append(scan, [buffer |-> lexer["lex"].buffer,
                           res |-> NextObject(lexer["lex"])])
  /\ UNCHANGED lexVars
  /\ UNCHANGED << hpc, sockClosed, activeConnections, ActiveConnectionsCount, listenerOpen >>

ScanNext == ScanRead \/ ScanNextObject

\* direct calls of Read and NextObject on a splitter
ScanSpec == PolicyInit /\ [][ScanNext]_vars

\* both versions of NextObject are called on the same splitter: the byte loop
\* (json.go:361-483) and the one built on the scanner primitives
\* (part_000:124-226); neither assigns to the splitter
CompareNextObject ==
  /\ Len(scan) < MaxCalls
  /\ scan' = Append(scan, [buffer |-> lexer["lex"].buffer,
                           res |-> NextObject(lexer["lex"]),
                           prim |-> NextObjectPrimitive(lexer["lex"])])
  /\ UNCHANGED lexVars
  /\ UNCHANGED << hpc, sockClosed, activeConnections, ActiveConnectionsCount, listenerOpen >>

CompareNext == ScanRead \/ CompareNextObject

\* direct calls of Read and of the two versions of NextObject on a splitter
CompareSpec == PolicyInit /\ [][CompareNext]_vars

\* ------------------------------------------------- the reference for framing

\* RFC 8259 whitespace
JsonWhitespace == {" ", "\t", "\n", "\r"}

Closer(c) == IF c = "{" THEN "}" ELSE "]"

RECURSIVE RefScan(_, _, _, _, _, _)
\* The values of a stream by the grammar: a value is an opener, its matching
\* closer and, between them, strings (closed by an unescaped quote), nested
\* values and other bytes; values are separated by whitespace or by nothing.
\* stack holds the unclosed openers, str is "out", "in" (in a string) or "esc"
\* (after a backslash in a string), cur the bytes of the value so far, acc the
\* complete values.  ok is FALSE when a byte breaks the grammar.
RefScan(s, i, stack, str, cur, acc) ==
  IF i > Len(s) THEN [ok |-> TRUE, open |-> stack # << >>, vals |-> acc]
  ELSE LET c == s[i] IN
    IF stack = << >> THEN
      IF c \in JsonWhitespace THEN RefScan(s, i + 1, stack, "out", << >>, acc)
      ELSE IF c \in {"{", "["} THEN RefScan(s, i + 1, << c >>, "out", << c >>, acc)
      ELSE [ok |-> FALSE, open |-> FALSE, vals |-> acc]
    ELSE IF str = "esc" THEN RefScan(s, i + 1, stack, "in", Append(cur, c), acc)
    ELSE IF str = "in" THEN
      RefScan(s, i + 1, stack,
              IF c = "\\" THEN "esc" ELSE IF c = "\"" THEN "out" ELSE "in",
              Append(cur, c), acc)
    ELSE IF c = "\"" THEN RefScan(s, i + 1, stack, "in", Append(cur, c), acc)
    ELSE IF c \in {"{", "["} THEN RefScan(s, i + 1, << c >> \o stack, "out", Append(cur, c), acc)
    ELSE IF c \in {"}", "]"} THEN
      IF c # Closer(Head(stack)) THEN [ok |-> FALSE, open |-> FALSE, vals |-> acc]
      ELSE IF Tail(stack) = << >>
           THEN RefScan(s, i + 1, << >>, "out", << >>, Append(acc, Append(cur, c)))
           ELSE RefScan(s, i + 1, Tail(stack), "out", Append(cur, c), acc)
    ELSE RefScan(s, i + 1, stack, "out", Append(cur, c), acc)

RefSplit(s) == RefScan(s, 1, << >>, "out", << >>, << >>)

\* s is a concatenation of well-formed values and inter-value whitespace
WellFormed(s) == RefSplit(s).ok /\ ~RefSplit(s).open
\* the values of such a stream, in order
Values(s) == RefSplit(s).vals

IsPrefix(a, b) == Len(a) <= Len(b) /\ a = SubSeq(b, 1, Len(a))

\* the bytes the reader of d has delivered so far
Received(d) == SubSeq(src[d].stream, 1, src[d].pos)

\* ------------------------------------------------------------------ claims

\* C1: chunking invariance of the splitter.  For a source stream that is a
\* concatenation of well-formed values and whitespace, delivered in chunks of
\* at least one byte and then EOF, DecodeAll with a synchronous, non-mutating
\* callback calls on_error never and on_value with the source values, in
\* order and byte-identical: a prefix of them while it runs, all of them once
\* it has returned.
C1_ChunkingInvariance ==
  (WellFormed(src["lex"].stream) /\ src["lex"].mode = "eof")
    => /\ errs["lex"] = << >>
       /\ IsPrefix(emitted["lex"], Values(src["lex"].stream))
       /\ writes["lex"] = [i \in 1..Len(emitted["lex"]) |->
                             [k |-> i, data |-> emitted["lex"][i], ok |-> TRUE]]
       /\ dpc["lex"] = "returned" => emitted["lex"] = Values(src["lex"].stream)

\* C1 witness: three values without separators, delivered in at least three
\* reads, have all been emitted and DecodeAll has returned
C1_Witness ==
  /\ src["lex"].stream = << "{", "x", "}", "{", "x", "}", "{", "x", "}" >>
  /\ src["lex"].mode = "eof"
  /\ dpc["lex"] = "returned"
  /\ Len(emitted["lex"]) = 3

\* the errors of NextObject among the errors passed to errCb of d
FramingErrs(d) == SelectSeq(errs[d], LAMBDA e : e # "read error")

\* the goroutines of d that are inside the destination's Write
Writing(d) == { k \in 1..Len(tasks[d]) : tasks[d][k].st = "writing" }

\* the connection entered the pump (proxy.go:222-263)
Pumped == dpc["client"] # "none"

\* C2: wire contract of the pump.  For a source stream of well-formed values,
\* with or without separators between them, the splitter reports no framing
\* error, every write to the peer is one source value followed by one '\n',
\* and once the direction has drained its source and nothing failed every
\* source value has been written.
C2_WireContract ==
  \A d \in Directions :
    WellFormed(src[d].stream) =>
      /\ FramingErrs(d) = << >>
      /\ \A i \in 1..Len(writes[d]) :
           /\ writes[d][i].k <= Len(Values(src[d].stream))
           /\ writes[d][i].data = Values(src[d].stream)[writes[d][i].k] \o << "\n" >>
      /\ ( /\ dpc[d] = "returned" /\ src[d].mode = "eof" /\ ~ctxDone["conn"]
           /\ \A k \in 1..Len(tasks[d]) : tasks[d][k].st = "done" )
         => Len(writes[d]) = Len(Values(src[d].stream))

\* C3: per-direction ordering.  The i-th write a direction makes to its peer
\* carries the i-th value its splitter emitted, and at most one write to that
\* peer is in progress, with asyncCallbacks false and true.
C3_PerDirectionOrdering ==
  \A d \in Directions :
    /\ \A i \in 1..Len(writes[d]) :
         /\ writes[d][i].k = i
         /\ writes[d][i].data = emitted[d][i] \o << "\n" >>
    /\ Cardinality(Writing(d)) <= 1

\* C4: prompt forwarding.  When a direction whose source sends well-formed
\* values is about to block in a source read, on_value has been invoked for
\* every complete value among the bytes received so far.
C4_PromptForwarding ==
  \A d \in Directions :
    (dpc[d] = "read" /\ WellFormed(src[d].stream))
      => emitted[d] = Values(Received(d))

\* a direction has hit a fatal condition: errCb was called (framing, policy
\* or source read error) or a write to the destination failed
Fatal(d) == errs[d] # << >> \/ \E i \in 1..Len(writes[d]) : ~writes[d][i].ok

\* C5: coupled termination.  Once a direction has hit a fatal condition,
\* eventually both directions have returned and the connection id is no longer
\* in the active-connection map.
C5_CoupledTermination ==
  (\E d \in Directions : Fatal(d))
    ~> ( /\ dpc["client"] = "returned" /\ dpc["upstream"] = "returned"
         /\ ConnID \notin activeConnections )

\* C6: cancellation terminates DecodeAll.  A DecodeAll call that has polled
\* the token and found it fired has returned.
C6_CancellationTerminates ==
  \A d \in Decoders : polls[d] > 0 => dpc[d] = "returned"

\* C7: teardown ordering.  When the pump has removed the connection id from
\* the map and decremented the counter, both directions have returned and
\* both sockets have been closed.
C7_TeardownOrdering ==
  (Pumped /\ hpc = "done")
    => /\ dpc["client"] = "returned" /\ dpc["upstream"] = "returned"
       /\ sockClosed["client"] /\ sockClosed["upstream"]

\* C8: framing and policy errors are fatal to the direction.  Once errCb has
\* been called with an error of NextObject, DecodeAll has returned: it issues
\* no further source read.
C8_FramingErrorFatal ==
  \A d \in Decoders : FramingErrs(d) # << >> => dpc[d] = "returned"

\* C9: a write failure stops forwarding.  After a failed write the scope is
\* cancelled and the direction makes no further write attempt: a failed write
\* is the last one, and no other write is in progress.
C9_WriteFailureStops ==
  \A d \in Directions :
    \A i \in 1..Len(writes[d]) :
      ~writes[d][i].ok => /\ ctxDone["conn"]
                          /\ i = Len(writes[d])
                          /\ Writing(d) = {}

\* C10: dial failure.  When the dial has failed for an accepted client, the
\* client socket is closed, the map has no entry for the connection, the
\* counter is unchanged and no direction was started.
C10_DialFailure ==
  (hpc = "done" /\ ~Pumped)
    => /\ sockClosed["client"]
       /\ ConnID \notin activeConnections
       /\ ActiveConnectionsCount = 0
       /\ dpc["client"] = "none" /\ dpc["upstream"] = "none"

\* ------------------------------------------- claims on the direct calls

\* the limits of the splitter under the direct calls are the defaults
DefaultPolicy ==
  /\ lexer["lex"].maxDepth = DefaultMaxDepth
  /\ lexer["lex"].maxStringLength = DefaultMaxStringLength
  /\ lexer["lex"].maxArrayLength = DefaultMaxArrayLength
  /\ lexer["lex"].maxObjectLength = DefaultMaxObjectLength

\* v is one well-formed value, without whitespace around it
SingleValue(v) == WellFormed(v) /\ Values(v) = << v >>

\* C11: split and resume.  For a well-formed value V within the limits and
\* every split of V into a non-empty proper prefix P and a remainder Q,
\* NextObject over a buffer holding P returns (start, -1, nil) with start the
\* index of V's opener, and after a later read has appended Q, NextObject
\* returns (start, end, nil) with buffer[start..end] = V.
C11_SplitAndResume ==
  (DefaultPolicy /\ SingleValue(src["lex"].stream)) =>
    \A i \in 1..Len(scan) :
      LET c == scan[i]
          V == src["lex"].stream
      IN /\ (c.buffer # << >> /\ Len(c.buffer) < Len(V)) => c.res = ResOk(0, -1)
         /\ Len(c.buffer) = Len(V)
              => /\ c.res = ResOk(0, Len(V) - 1)
                 /\ SubSeq(c.buffer, c.res.start + 1, c.res.end + 1) = V

\* C11 witness: {"x"} arrives as {" and x"}; NextObject was called after each
\* read, asked for more on the first and found the value on the second
C11_Witness ==
  /\ DefaultPolicy
  /\ src["lex"].stream = << "{", "\"", "x", "\"", "}" >>
  /\ Len(scan) = 2
  /\ scan[1].buffer = << "{", "\"" >> /\ scan[1].res.end = -1
  /\ scan[2].buffer = src["lex"].stream /\ scan[2].res.end = 4

\* C12: NextObject offsets.  For a buffer (cursor 0) holding w whitespace
\* bytes, then a complete well-formed value of n bytes, then any bytes,
\* NextObject returns (w, w+n-1, nil): the indices of the opener and of the
\* matching final closer of the first value, whatever follows it.
C12_Offsets ==
  DefaultPolicy =>
    \A i \in 1..Len(scan) :
      LET b == scan[i].buffer IN
        \A w \in 0..Len(b) : \A n \in 1..(Len(b) - w) :
          ( /\ \A k \in 1..w : b[k] \in JsonWhitespace
            /\ SingleValue(SubSeq(b, w + 1, w + n)) )
            => scan[i].res = ResOk(w, w + n - 1)

\* C12 witness: a tab and a carriage return, the value [] and a second value
\* {} are in the buffer; NextObject returned (2, 3, nil)
C12_Witness ==
  /\ DefaultPolicy
  /\ Len(scan) > 0
  /\ scan[Len(scan)].buffer = << "\t", "\r", "[", "]", "{", "}" >>
  /\ scan[Len(scan)].res = ResOk(2, 3)

RECURSIVE Track(_, _)
\* What the framing rules keep track of over the first p bytes of a buffer b
\* that begins with an opener, when nothing stops the scan: str is "out",
\* "in" (inside a string) or "esc" (inside a string, after a backslash that
\* is not consumed yet); od and ad are the numbers of unclosed '{' and '['
\* outside strings; arrays is the number of '[' outside strings; inside is the
\* number of bytes after the opening quote of the current string.
Track(b, p) ==
  IF p = 0 THEN [str |-> "out", od |-> 0, ad |-> 0, arrays |-> 0, inside |-> 0]
  ELSE LET t == Track(b, p - 1)
           c == b[p]
       IN IF t.str = "esc" THEN [t EXCEPT !.str = "in", !.inside = @ + 1]
          ELSE IF t.str = "in" THEN
            (IF c = "\\" THEN [t EXCEPT !.str = "esc", !.inside = @ + 1]
             ELSE IF c = "\"" THEN [t EXCEPT !.str = "out", !.inside = 0]
             ELSE [t EXCEPT !.inside = @ + 1])
          ELSE IF c = "\"" THEN [t EXCEPT !.str = "in"]
          ELSE IF c = "{" THEN [t EXCEPT !.od = @ + 1]
          ELSE IF c = "}" THEN [t EXCEPT !.od = @ - 1]
          ELSE IF c = "[" THEN [t EXCEPT !.ad = @ + 1, !.arrays = @ + 1]
          ELSE IF c = "]" THEN [t EXCEPT !.ad = @ - 1]
          ELSE t

\* both depths are back to 0 after the first p bytes of b
Closed(b, p) == Track(b, p).str = "out" /\ Track(b, p).od = 0 /\ Track(b, p).ad = 0

\* no closer among the first p bytes of b is without an opener of its kind
NoStray(b, p) == \A q \in 1..p : Track(b, q).od >= 0 /\ Track(b, q).ad >= 0

\* C13: string and escape tracking.  For a buffer that begins with an opener,
\* NextObject frames by the tracking rules: a quote after an unconsumed
\* backslash does not close the string, the byte after a backslash is ignored,
\* brackets inside strings do not change the depths.  The value ends at the
\* first byte after which both depths are 0 outside a string, and more bytes
\* are asked for when there is none; the chunking does not matter, also when
\* a read ends with the backslash.
C13_StringTracking ==
  DefaultPolicy =>
    \A i \in 1..Len(scan) :
      LET b == scan[i].buffer
          ends == { p \in 1..Len(b) : Closed(b, p) }
      IN (b # << >> /\ b[1] \in {"{", "["})
           => IF ends = {}
              THEN NoStray(b, Len(b)) => scan[i].res = ResOk(0, -1)
              ELSE LET e == CHOOSE p \in ends : \A q \in ends : p <= q
                   IN NoStray(b, e) => scan[i].res = ResOk(0, e - 1)

\* C13 witness: {"[\"]"} arrives as {"[\ and "]"}: the first read ends with
\* the backslash, NextObject asked for more then, and after the second read it
\* returned the whole value, the escaped quote and the brackets inside the
\* string left alone
C13_Witness ==
  /\ DefaultPolicy
  /\ src["lex"].stream = << "{", "\"", "[", "\\", "\"", "]", "\"", "}" >>
  /\ Len(scan) = 2
  /\ scan[1].buffer = << "{", "\"", "[", "\\" >> /\ scan[1].res = ResOk(0, -1)
  /\ scan[2].buffer = src["lex"].stream /\ scan[2].res = ResOk(0, 7)

\* the result of NextObject over the first p bytes of the buffer b, under the
\* limits of the splitter of the direct calls
OnPrefix(b, p) ==
  NextObject([lexer["lex"] EXCEPT !.buffer = SubSeq(b, 1, p), !.length = p, !.cursor = 0])

\* the 1-based positions of the bytes of b that are not whitespace
NonWhitespace(b) == { k \in 1..Len(b) : b[k] \notin JsonWhitespace }

\* C14: framing error classification and position.  When the first
\* non-whitespace byte is '}' or ']', NextObject fails with "unmatched closing
\* bracket"; when it is another byte than '{' and '[', with "unexpected
\* character"; when the scan of a value meets, outside a string, a '}' while
\* object_depth is 0 or a ']' while array_depth is 0, with "unmatched closing
\* bracket".  The position reported is the index of that byte in the buffer.
C14_ErrorPosition ==
  \A i \in 1..Len(scan) :
    LET b == scan[i].buffer
        r == scan[i].res
    IN NonWhitespace(b) # {} =>
         LET f == CHOOSE k \in NonWhitespace(b) : \A j \in NonWhitespace(b) : k <= j
             v == SubSeq(b, f, Len(b))
         IN /\ b[f] \in {"}", "]"} => (r.err = "unmatched closing bracket" /\ r.arg = f - 1)
            /\ b[f] \notin {"{", "[", "}", "]"} => (r.err = "unexpected character" /\ r.arg = f - 1)
            /\ b[f] \in {"{", "["} =>
                 \A p \in (f + 1)..Len(b) :
                   LET t == Track(v, p - f) IN
                     ( /\ OnPrefix(b, p - 1) = ResOk(f - 1, -1)
                       /\ t.str = "out"
                       /\ \/ b[p] = "}" /\ t.od = 0
                          \/ b[p] = "]" /\ t.ad = 0 )
                       => (r.err = "unmatched closing bracket" /\ r.arg = p - 1)

\* C14 witness: NextObject over {[]]} failed with the unmatched closing
\* bracket at position 3, the second ']'
C14_Witness ==
  /\ Len(scan) > 0
  /\ scan[Len(scan)].buffer = << "{", "[", "]", "]", "}" >>
  /\ scan[Len(scan)].res = ResErr("unmatched closing bracket", 3)

\* the scan of the buffer b, whose value starts at position f, gets to the
\* byte at position p (1-based): NextObject over the bytes before it neither
\* fails nor finds the end of the value
Reaches(b, f, p) == p = f \/ OnPrefix(b, p - 1) = ResOk(f - 1, -1)

\* the byte at position p of b, outside a string, is the opener c and raises
\* the depth of its kind above the limit of the splitter
RaisesAbove(b, f, p, c) ==
  LET t == Track(SubSeq(b, f, Len(b)), p - f) IN
    /\ t.str = "out"
    /\ b[p] = c
    /\ (IF c = "{" THEN t.od ELSE t.ad) + 1 > lexer["lex"].maxDepth

\* C15: the depth limit is checked at each increment.  NextObject fails with
\* "object (array) exceeds maximum depth of N" exactly when the scan gets to a
\* '{' ('[') outside a string that raises object_depth (array_depth) above
\* max_depth; it fails at that opener whatever bytes follow, and N is
\* max_depth.
C15_DepthLimit ==
  \A i \in 1..Len(scan) :
    LET b == scan[i].buffer
        r == scan[i].res
    IN NonWhitespace(b) # {} =>
         LET f == CHOOSE k \in NonWhitespace(b) : \A j \in NonWhitespace(b) : k <= j
             at(c) == { p \in f..Len(b) : Reaches(b, f, p) /\ RaisesAbove(b, f, p, c) }
         IN b[f] \in {"{", "["} =>
              /\ (r.err = "object exceeds maximum depth") = (at("{") # {})
              /\ (r.err = "array exceeds maximum depth") = (at("[") # {})
              /\ r.err \in {"object exceeds maximum depth", "array exceeds maximum depth"}
                   => r.arg = lexer["lex"].maxDepth

\* C15 witness: with max_depth 2, NextObject over {{{{x}}}} failed with
\* "object exceeds maximum depth of 2" (at the third '{')
C15_Witness ==
  /\ lexer["lex"].maxDepth = 2
  /\ Len(scan) > 0
  /\ scan[Len(scan)].buffer = << "{", "{", "{", "{", "x", "}", "}", "}", "}" >>
  /\ scan[Len(scan)].res.err = "object exceeds maximum depth"
  /\ scan[Len(scan)].res.arg = 2
  /\ OnPrefix(scan[Len(scan)].buffer, 2).err = "nil"
  /\ OnPrefix(scan[Len(scan)].buffer, 3).err = "object exceeds maximum depth"

\* C16: max_depth is a combined limit.  At every point of a NextObject scan
\* object_depth + array_depth <= max_depth: while the scan goes on the two
\* depths together do not exceed the limit, and no value whose combined
\* nesting exceeds it is returned.
C16_CombinedDepth ==
  \A i \in 1..Len(scan) :
    LET b == scan[i].buffer IN
      NonWhitespace(b) # {} =>
        LET f == CHOOSE k \in NonWhitespace(b) : \A j \in NonWhitespace(b) : k <= j
            v == SubSeq(b, f, Len(b))
        IN b[f] \in {"{", "["} =>
             \A p \in f..Len(b) :
               (Reaches(b, f, p) /\ OnPrefix(b, p).err = "nil")
                 => Track(v, p - f + 1).od + Track(v, p - f + 1).ad <= lexer["lex"].maxDepth

\* the byte at position p of b lies between the quotes of a string and is
\* one more than max_string_length bytes inside that string
StringTooLong(b, f, p) ==
  LET t == Track(SubSeq(b, f, Len(b)), p - f) IN
    /\ t.str = "esc" \/ (t.str = "in" /\ b[p] # "\"")
    /\ t.inside + 1 > lexer["lex"].maxStringLength

\* C17: max_string_length bounds the bytes inside one string.  NextObject
\* fails with "string exceeds maximum length of N" exactly when the scan gets
\* to a byte between the quotes of a string that has already max_string_length
\* bytes before it in that string: a string with exactly max_string_length
\* bytes inside is accepted, one with more is rejected, and the count starts
\* from zero for each string.
C17_StringLimit ==
  \A i \in 1..Len(scan) :
    LET b == scan[i].buffer
        r == scan[i].res
    IN NonWhitespace(b) # {} =>
         LET f == CHOOSE k \in NonWhitespace(b) : \A j \in NonWhitespace(b) : k <= j IN
           b[f] \in {"{", "["} =>
             (r.err = "string exceeds maximum length")
               = (\E p \in f..Len(b) : Reaches(b, f, p) /\ StringTooLong(b, f, p))

\* the byte at position p of b is a '[' outside a string and, with it, more
\* than max_array_elements '[' outside strings have been seen since the start
\* of the value
TooManyArrays(b, f, p) ==
  LET t == Track(SubSeq(b, f, Len(b)), p - f) IN
    t.str = "out" /\ b[p] = "[" /\ t.arrays + 1 > lexer["lex"].maxArrayLength

\* C18, as stated: NextObject fails with "array length exceeds maximum of N"
\* exactly when the scan gets to a '[' outside a string with which the number
\* of such '[' seen since the start of the value, nested or already closed,
\* exceeds max_array_elements.
C18_ArrayCount ==
  \A i \in 1..Len(scan) :
    LET b == scan[i].buffer
        r == scan[i].res
    IN NonWhitespace(b) # {} =>
         LET f == CHOOSE k \in NonWhitespace(b) : \A j \in NonWhitespace(b) : k <= j IN
           b[f] \in {"{", "["} =>
             (r.err = "array length exceeds maximum")
               = (\E p \in f..Len(b) : Reaches(b, f, p) /\ TooManyArrays(b, f, p))

\* C18, amended: max_array_elements counts every '[' outside strings seen
\* during one NextObject scan, nested or already closed, from zero on every
\* call.  NextObject fails with "array length exceeds maximum of N", N being
\* max_array_elements, exactly when the scan gets to a '[' with which that
\* number exceeds max_array_elements and which does not raise array_depth
\* above max_depth: the depth is checked first, and then the depth error is
\* the one reported.
C18_ArrayCountAmended ==
  \A i \in 1..Len(scan) :
    LET b == scan[i].buffer
        r == scan[i].res
    IN NonWhitespace(b) # {} =>
         LET f == CHOOSE k \in NonWhitespace(b) : \A j \in NonWhitespace(b) : k <= j IN
           b[f] \in {"{", "["} =>
             /\ (r.err = "array length exceeds maximum")
                  = (\E p \in f..Len(b) : /\ Reaches(b, f, p)
                                          /\ TooManyArrays(b, f, p)
                                          /\ ~RaisesAbove(b, f, p, "["))
             /\ r.err = "array length exceeds maximum" => r.arg = lexer["lex"].maxArrayLength

\* C18 witness: with max_array_elements 2 and max_depth 2, NextObject over
\* [[][]] failed at the third '[', a sibling of a closed array at depth 2, with
\* "array length exceeds maximum of 2"; a second call gave the same
C18_Witness ==
  /\ lexer["lex"].maxArrayLength = 2
  /\ lexer["lex"].maxDepth = 2
  /\ Len(scan) = 2
  /\ \A i \in 1..2 :
       /\ scan[i].buffer = << "[", "[", "]", "[", "]", "]" >>
       /\ scan[i].res.err = "array length exceeds maximum"
       /\ scan[i].res.arg = 2
  /\ OnPrefix(scan[1].buffer, 3).err = "nil"

\* ------------------------------------------ claims on DecodeAll, continued

\* the end (number of bytes up to and including its last byte) of the k-th
\* value of the stream s by the grammar; 0 for k = 0
EndOfValue(s, k) ==
  IF k = 0 THEN 0
  ELSE CHOOSE p \in 1..Len(s) :
         /\ Len(RefSplit(SubSeq(s, 1, p)).vals) >= k
         /\ \A q \in 1..(p - 1) : Len(RefSplit(SubSeq(s, 1, q)).vals) < k

\* the number of whitespace bytes the buffer b begins with
LeadingWhitespace(b) ==
  IF NonWhitespace(b) = {} THEN Len(b)
  ELSE (CHOOSE k \in NonWhitespace(b) : \A j \in NonWhitespace(b) : k <= j) - 1

\* the state part of C19, for the stand-alone splitter: cursor is 0, the
\* buffer holds the last length bytes received, and for a stream that follows
\* the grammar these are the received bytes after the last emitted value
CompactedState ==
  LET l == lexer["lex"]
      got == Received("lex")
      k == Len(emitted["lex"])
  IN /\ l.cursor = 0
     /\ src["lex"].mode # "eofdata" =>
          /\ l.length <= Len(got)
          /\ SubSeq(l.buffer, 1, l.length) = SubSeq(got, Len(got) - l.length + 1, Len(got))
          /\ (RefSplit(src["lex"].stream).ok /\ k <= Len(Values(got)))
               => l.length = Len(got) - EndOfValue(got, k)

\* the step part of C19: an emission of the value buffer[start..end] leaves
\* cursor = 0, length = old length - (end+1) and the old bytes from end+1 on
\* at the front of the buffer; end+1 is the number of whitespace bytes before
\* the value plus the length of the value
CompactedStep ==
  LET l == lexer["lex"]
      n == Len(emitted["lex"])
  IN Len(emitted'["lex"]) = n + 1 =>
       LET e1 == LeadingWhitespace(l.buffer) + Len(emitted'["lex"][n + 1]) IN
         /\ lexer'["lex"].cursor = 0
         /\ lexer'["lex"].length = l.length - e1
         /\ lexer'["lex"].buffer = SubSeq(l.buffer, e1 + 1, l.length)

\* C19: compaction.  After processBuffer emits a value ending at buffer index
\* end, cursor = 0, length = old length - (end+1) and buffer[0..length) is the
\* old buffer[end+1..old length); hence after the k-th emission the buffer
\* holds the received bytes that follow the k-th value, and cursor is 0
\* whenever control is outside processBuffer.
C19_Compaction == []CompactedState /\ [][CompactedStep]_vars

\* C19 witness: {} {} was received in one read and the first value has been
\* emitted: the buffer holds the three bytes that follow it
C19_Witness ==
  /\ src["lex"].stream = << "{", "}", " ", "{", "}" >>
  /\ src["lex"].pos = 5
  /\ Len(emitted["lex"]) = 1
  /\ lexer["lex"].cursor = 0
  /\ lexer["lex"].buffer = << " ", "{", "}" >>

\* C20: EOF drain.  When the source has reported EOF, with or without final
\* bytes in the same read, and DecodeAll has returned, every complete value of
\* a stream that follows the grammar has been emitted, the one completed by
\* the bytes of the final read included, and on_error was not called.
C20_EofDrain ==
  ( /\ dpc["lex"] = "returned"
    /\ src["lex"].mode \in {"eof", "eofdata"}
    /\ RefSplit(src["lex"].stream).ok )
    => /\ emitted["lex"] = Values(src["lex"].stream)
       /\ errs["lex"] = << >>

\* a step in which the Read of the stand-alone splitter reports
\* would-need-more: DecodeAll is in Read, the reader has nothing but
\* io.ErrUnexpectedEOF for it, and the step delivers no byte
NeedMoreStep ==
  /\ dpc["lex"] = "read"
  /\ dpc'["lex"] # "read"
  /\ src["lex"].mode = "needmore"
  /\ src'["lex"] = src["lex"]

\* C21: would-need-more is not an error.  When a source read reports
\* io.ErrUnexpectedEOF, DecodeAll does not call on_error and does not return,
\* the buffered bytes stay as they are, and DecodeAll is back at the top of its
\* loop, from where it reads again; a reader that only ever reports
\* would-need-more never makes DecodeAll return or report a read error.
C21_NeedMoreNotError ==
  /\ [](src["lex"].mode = "needmore"
          => /\ dpc["lex"] # "returned"
             /\ \A i \in 1..Len(errs["lex"]) : errs["lex"][i] # "read error")
  /\ [][NeedMoreStep
          => /\ errs'["lex"] = errs["lex"]
             /\ emitted'["lex"] = emitted["lex"]
             /\ dpc'["lex"] = "select"
             /\ lastObjComplete'["lex"]
             /\ lexer'["lex"].buffer = lexer["lex"].buffer
             /\ lexer'["lex"].length = lexer["lex"].length
             /\ lexer'["lex"].cursor = lexer["lex"].cursor]_vars

\* C21 witness: the reader delivered the incomplete value {" in one read and
\* reports would-need-more since.  The capacity, 4 after the first read, has
\* been grown twice more, by two further reads; the two bytes are still
\* buffered, on_error was not called and DecodeAll is in a read again
C21_Witness ==
  /\ src["lex"].mode = "needmore"
  /\ src["lex"].stream = << "{", "\"" >>
  /\ src["lex"].pos = 2
  /\ lexer["lex"].cap = 12
  /\ lexer["lex"].buffer = << "{", "\"" >>
  /\ errs["lex"] = << >>
  /\ emitted["lex"] = << >>
  /\ dpc["lex"] = "read"

\* ------------------------------------------- a connection with its observers

\* the values a peer sends one per line
LineValues == { v \in LexStreams : SingleValue(v) }

\* what the client of a proxy with observers sends: the lines another
\* instance of the proxy writes for single values, and the token streams
PeerStreams ==
  { handleMessage(v) : v \in LineValues } \cup { Flatten(ts) : ts \in Seqs(ProxyTokens, MaxTokens) }

\* Listen on a proxy whose OnRequest and OnResponse are set (proxy.go:36-39,
\* 49-54, 129-174); the upstream sends nothing
PeerInit ==
  /\ InitCommon
  /\ listenerOpen = TRUE
  /\ hooks = TRUE
  /\ \E a \in BOOLEAN :
       lexer = [d \in Decoders |-> NewJsonStreamLexer(BufferSize, MaxRead, a)]
  /\ \E s \in PeerStreams, mc \in SocketModes, mu \in SocketModes :
       src = [d \in Decoders |->
                IF d = "client" THEN [stream |-> s, pos |-> 0, mode |-> mc]
                ELSE IF d = "upstream" THEN [stream |-> << >>, pos |-> 0, mode |-> mu]
                ELSE NoReader]

PeerNext ==
  \/ Next
  \/ \E d \in Directions : Observe(d)

\* one connection of a proxy with observers
PeerSpec == PeerInit /\ [][PeerNext]_vars

\* -------------------------------------------------------------------- C22
\* C22: the bytes an observer (OnRequest, OnResponse) reads from the slice it
\* was given are the bytes of the value that was forwarded, whatever the
\* splitter does after the forwarder returned.
C22_ObserverCopies ==
  \A d \in Directions : \A i \in 1..Len(observers[d]) :
    observers[d][i].seen # << >> => observers[d][i].seen[1] = observers[d][i].data

\* ------------------------------------------- splitters of several sizes

\* the bufferSize and maxRead arguments of NewJsonStreamLexer
BufferSizes == {0, 1, 2, 3}
MaxReads == {1, 2, 4}

\* what the reader of such a splitter returns
SizeStreams ==
  LexCases \cup Seqs({"{", "}", "x"}, MaxStream) \cup
  { << "[", "x", "x", "x", "x", "x", "]" >>, << "{", "\"", "x", "}", "x", "\"", "}" >> }

\* NewJsonStreamLexer(reader, bufferSize, maxRead, false), DecodeAll about to
\* be called (json.go:266-286; json_test.go:138-221)
SizeInit ==
  /\ InitCommon
  /\ listenerOpen = FALSE
  /\ hooks = FALSE
  /\ \E b \in BufferSizes, m \in MaxReads :
       lexer = [d \in Decoders |-> NewJsonStreamLexer(b, m, FALSE)]
  /\ \E s \in SizeStreams, m \in LexModes :
       src = [d \in Decoders |->
                IF d = "lex" THEN [stream |-> s, pos |-> 0, mode |-> m] ELSE NoReader]

\* the stand-alone splitter, for several buffer sizes and chunk sizes
SizeSpec == SizeInit /\ [][LexNext]_vars

\* -------------------------------------------------------------------- C23
\* a call of Read by DecodeAll
ReadStep == dpc["lex"] = "read" /\ dpc'["lex"] # "read"
\* a call of Read that returned bytes and no error
ReadOkStep == ReadStep /\ dpc'["lex"] = "select" /\ src'["lex"].pos > src["lex"].pos

\* C23: when Read calls the source, capacity - length >= max_read_chunk, so
\* the region buffer[length .. length+max_read_chunk) lies inside the
\* capacity; a successful read returns at most max_read_chunk bytes, length
\* grows by exactly that number and the bytes are stored from the old length on.
C23_ReadHeadroom ==
  [][/\ ReadStep
        => /\ lexer'["lex"].cap - lexer["lex"].length >= lexer["lex"].maxRead
           /\ lexer["lex"].length + lexer["lex"].maxRead <= lexer'["lex"].cap
     /\ ReadOkStep
        => LET n == src'["lex"].pos - src["lex"].pos IN
             /\ n <= lexer["lex"].maxRead
             /\ lexer'["lex"].length = lexer["lex"].length + n
             /\ lexer'["lex"].length <= lexer'["lex"].cap
             /\ SubSeq(lexer'["lex"].buffer, lexer["lex"].length + 1, lexer'["lex"].length)
                  = SubSeq(src["lex"].stream, src["lex"].pos + 1, src'["lex"].pos)]_vars

\* a read that needed a larger array has returned two bytes into it
C23_Witness ==
  /\ lexer["lex"].maxRead = 2
  /\ lexer["lex"].cap = 4
  /\ lexer["lex"].length = 4
  /\ lexer["lex"].buffer = << "{", "{", "{", "x" >>
  /\ src["lex"].pos = 4
  /\ dpc["lex"] = "select"

\* -------------------------------------------------------------------- C24
\* C24: Read allocates a new array only when capacity - length is less than
\* max_read_chunk, and the new capacity is then the larger of
\* length + max_read_chunk and twice the old capacity.
C24_GrowthRule ==
  [][ReadStep
       => LET l == lexer["lex"]
              larger == IF l.length + l.maxRead > 2 * l.cap
                        THEN l.length + l.maxRead ELSE 2 * l.cap
          IN lexer'["lex"].cap = IF l.cap - l.length < l.maxRead THEN larger ELSE l.cap]_vars

\* the part of C24 the code keeps: the array is replaced whenever the free
\* capacity is below max_read_chunk, and a new array is never smaller than
\* length + max_read_chunk nor than the old one
C24_GrowthKept ==
  [][ReadStep
       => LET l == lexer["lex"] IN
            /\ l.cap - l.length < l.maxRead => lexer'["lex"].cap # l.cap
            /\ lexer'["lex"].cap # l.cap
                 => /\ lexer'["lex"].cap >= l.length + l.maxRead
                    /\ lexer'["lex"].cap \in {l.length + l.maxRead, 2 * l.cap}]_vars

\* -------------------------------------------------------------------- C25
\* C25: in every state of the splitter 0 <= cursor <= length <= capacity (and
\* length <= len(buffer) <= capacity); no step lowers the capacity; Read
\* never lowers length.
C25_BufferIndices ==
  /\ [](LET l == lexer["lex"] IN
          /\ 0 <= l.cursor /\ l.cursor <= l.length /\ l.length <= l.cap
          /\ l.length <= l.len /\ l.len <= l.cap
          /\ Len(l.buffer) = l.length)
  /\ [][/\ lexer'["lex"].cap >= lexer["lex"].cap
        /\ ReadStep => lexer'["lex"].length >= lexer["lex"].length]_vars

\* the array has been replaced by larger ones, a value has been emitted, the
\* rest moved to the front and another byte read
C25_Witness ==
  /\ lexer["lex"].maxRead = 1
  /\ lexer["lex"].cap = 8
  /\ lexer["lex"].len = 1
  /\ lexer["lex"].length = 1
  /\ lexer["lex"].buffer = << "}" >>
  /\ emitted["lex"] = << << "{", "x", "}" >> >>
  /\ src["lex"].stream = << "{", "x", "}", "}" >>

\* -------------------------------------------------------------------- C26
\* what the parse loop of NextObject holds when it runs out of bytes at the
\* end of the buffer of l, from index i and scanning state s on: [s |-> the
\* scanning state], or [ret |-> the result] when the loop returns earlier
ScanStateFrom(l, i, s) == ScanRange(l, 0, i, l.length, [s |-> s])

\* the scanning state of the splitter at the end of the buffer b
ScanStateOf(b) ==
  ScanStateFrom([lexer["lex"] EXCEPT !.buffer = b, !.length = Len(b), !.cursor = 0], 0, ScanInit)

\* NextObject asked for more bytes on call i, on a buffer that starts a value
AsksMore(i) ==
  /\ scan[i].res.err = "nil" /\ scan[i].res.end = -1
  /\ scan[i].buffer # << >> /\ scan[i].buffer[1] \in {"{", "["}

\* C26: the bytes held by the splitter are bounded by the policy limits: when
\* NextObject asks for more bytes on a buffer and again on a longer buffer
\* that extends it, the bytes in between have changed the scanning state
\* (they used up depth, count or string length). With an equal state the
\* peer can repeat those bytes for ever: every scan asks for more and no
\* limit or framing error is ever reached.
C26_BoundedMemory ==
  \A i \in 1..Len(scan) : \A j \in 1..Len(scan) :
    (/\ AsksMore(i) /\ AsksMore(j)
     /\ Len(scan[i].buffer) < Len(scan[j].buffer)
     /\ IsPrefix(scan[i].buffer, scan[j].buffer))
    => ScanStateOf(scan[i].buffer) # ScanStateOf(scan[j].buffer)

\* -------------------------------------------------------------------- C27
\* the reader holds one value that is longer than every initial capacity
BigValue ==
  /\ SingleValue(src["lex"].stream)
  /\ \A b \in BufferSizes : Len(src["lex"].stream) > b

\* C27: a Read that replaces the array leaves the bytes [0, length) as they
\* were, and a single value longer than the initial capacity, delivered over
\* any number of reads, is emitted at most once, byte for byte as it was
\* sent, without a framing error, and has been emitted when DecodeAll returns
\* at the end of the input.
C27_GrowthPreserves ==
  /\ [][ReadStep => SubSeq(lexer'["lex"].buffer, 1, lexer["lex"].length) = lexer["lex"].buffer]_vars
  /\ [](BigValue
          => /\ IsPrefix(emitted["lex"], << src["lex"].stream >>)
             /\ FramingErrs("lex") = << >>
             /\ (src["lex"].mode = "eof" /\ dpc["lex"] = "returned")
                  => emitted["lex"] = << src["lex"].stream >>)

\* seven bytes arrived one at a time in a splitter created with capacity 0
\* or 1, whose array was replaced for each of them, and the value has been
\* emitted
C27_Witness ==
  /\ src["lex"].stream = << "[", "x", "x", "x", "x", "x", "]" >>
  /\ lexer["lex"].maxRead = 1
  /\ lexer["lex"].cap = 7
  /\ emitted["lex"] = << src["lex"].stream >>
  /\ src["lex"].mode = "eof"
  /\ dpc["lex"] = "returned"

\* -------------------------------------------------------------------- C28
\* the value of a line: the bytes before the last one
LineValue(s) == SubSeq(s, 1, Len(s) - 1)

\* the client sends what a forwarder writes for one well-formed value
ForwardedLine ==
  LET s == src["client"].stream IN
    /\ s # << >>
    /\ s[Len(s)] = "\n"
    /\ SingleValue(LineValue(s))

\* C28: when the bytes V '\n' that a forwarder writes for a well-formed value
\* V are fed to the fresh splitter of another proxy, that splitter emits V
\* and nothing else, without a framing error, however the bytes are cut into
\* reads; what this proxy then writes is V '\n' again, the same bytes one
\* proxy delivers; once the line has been read and scanned, V has been emitted.
C28_RoundTrip ==
  ForwardedLine =>
    LET s == src["client"].stream
        v == LineValue(s)
    IN /\ IsPrefix(emitted["client"], << v >>)
       /\ FramingErrs("client") = << >>
       /\ Len(writes["client"]) <= 1
       /\ \A i \in 1..Len(writes["client"]) : writes["client"][i].data = v \o << "\n" >>
       /\ (src["client"].pos = Len(s) /\ dpc["client"] \in {"read", "returned"})
            => emitted["client"] = << v >>

\* the line {x} '\n' came in two reads, the second one holding only the
\* newline; the value went out as the same line and the splitter waits for
\* more bytes
C28_Witness ==
  /\ src["client"].stream = << "{", "x", "}", "\n" >>
  /\ src["client"].pos = 4
  /\ ~lexer["client"].asyncCallbacks
  /\ lexer["client"].buffer = << "\n" >>
  /\ ~lastObjComplete["client"]
  /\ dpc["client"] = "read"
  /\ emitted["client"] = << << "{", "x", "}" >> >>
  /\ writes["client"] = << [k |-> 1, data |-> << "{", "x", "}", "\n" >>, ok |-> TRUE] >>

\* -------------------------------------------------------------------- C29
\* C29: within a connection the client->upstream direction reads only the
\* client socket and writes only the upstream socket, the upstream->client
\* direction reads only the upstream socket and writes only the client
\* socket; so each socket has at most one reading and one writing direction.
C29_SocketOwnership ==
  /\ io.reads \subseteq {<< "client", "client" >>, << "upstream", "upstream" >>}
  /\ io.writes \subseteq {<< "client", "upstream" >>, << "upstream", "client" >>}
  /\ \A s \in Sockets :
       /\ Cardinality({ p \in io.reads : p[2] = s }) <= 1
       /\ Cardinality({ p \in io.writes : p[2] = s }) <= 1

\* both directions have read their socket and forwarded a value
C29_Witness ==
  /\ io.reads = {<< "client", "client" >>, << "upstream", "upstream" >>}
  /\ io.writes = {<< "client", "upstream" >>, << "upstream", "client" >>}
  /\ writes["client"] # << >>
  /\ writes["upstream"] # << >>

\* ------------------------------------------------- several connections

\* the number of connections accepted and the last reading of the clock
MaxConns == 3
MaxClock == 3

\* fmt.Sprintf("conn_%d", t) (proxy.go:193)
connID(t) == << "conn_", t >>

\* the listener with no connection yet (proxy.go:49-54)
ConnsInit ==
  /\ InitCommon
  /\ listenerOpen = TRUE
  /\ hooks = FALSE
  /\ lexer = [d \in Decoders |-> NewJsonStreamLexer(BufferSize, MaxRead, FALSE)]
  /\ src = [d \in Decoders |-> NoReader]

\* time passes: the next time.Now().UnixNano() returns a larger number
ClockTick ==
  /\ clock < MaxClock
  /\ clock' = clock + 1
  /\ UNCHANGED << pumpVars, hpc, sockClosed, activeConnections, ActiveConnectionsCount,
                  listenerOpen, scan, conns >>

\* acceptConnections: Accept returns a client and 'go j.handleConnection(conn)'
\* starts a handler for it (proxy.go:176-189)
AcceptConn ==
  /\ listenerOpen
  /\ Len(conns) < MaxConns
  /\ conns' = Append(conns, [st |-> "accepted", id |-> connID(0)])
  /\ UNCHANGED << pumpVars, hpc, sockClosed, activeConnections, ActiveConnectionsCount,
                  listenerOpen, scan, clock >>

\* handleConnection of the c-th connection: the id is made from the clock,
\* the dial succeeds, the pair is stored under the id and the counter is
\* incremented (proxy.go:191-223)
HandleConnStart(c) ==
  /\ c \in 1..Len(conns)
  /\ conns[c].st = "accepted"
  /\ conns' = [conns EXCEPT ![c] = [st |-> "live", id |-> connID(clock)]]
  /\ activeConnections' = activeConnections \cup {connID(clock)}
  /\ ActiveConnectionsCount' = ActiveConnectionsCount + 1
  /\ UNCHANGED << pumpVars, hpc, sockClosed, listenerOpen, scan, clock >>

\* HandleConnDialFail with the teardown of the pump run on the way out
HandleConnDialFailTornDown(c) ==
  /\ c \in 1..Len(conns)
  /\ conns[c].st = "accepted"
  /\ conns' = [conns EXCEPT ![c] = [st |-> "failed", id |-> connID(clock)]]
  /\ activeConnections' = activeConnections \ {connID(clock)}
  /\ ActiveConnectionsCount' = ActiveConnectionsCount - 1
  /\ UNCHANGED << pumpVars, hpc, sockClosed, listenerOpen, scan, clock >>

\* handleConnection of the c-th connection: the id is made from the clock,
\* the dial fails and the handler returns (proxy.go:191-206)
HandleConnDialFail(c) ==
  /\ c \in 1..Len(conns)
  /\ conns[c].st = "accepted"
  /\ conns' = [conns EXCEPT ![c] = [st |-> "failed", id |-> connID(clock)]]
  /\ UNCHANGED << pumpVars, hpc, sockClosed, activeConnections, ActiveConnectionsCount,
                  listenerOpen, scan, clock >>

\* handleConnection of the c-th connection: clientDecoder.DecodeAll has
\* returned, the id is deleted from the map and the counter is decremented
\* (proxy.go:291-298)
HandleConnFinish(c) ==
  /\ c \in 1..Len(conns)
  /\ conns[c].st = "live"
  /\ conns' = [conns EXCEPT ![c].st = "done"]
  /\ activeConnections' = activeConnections \ {conns[c].id}
  /\ ActiveConnectionsCount' = ActiveConnectionsCount - 1
  /\ UNCHANGED << pumpVars, hpc, sockClosed, listenerOpen, scan, clock >>

ConnsNext ==
  \/ ClockTick
  \/ AcceptConn
  \/ \E c \in 1..MaxConns : HandleConnStart(c)
  \/ \E c \in 1..MaxConns : HandleConnDialFail(c)
  \/ \E c \in 1..MaxConns : HandleConnFinish(c)

\* the connections of one proxy process and their ids
ConnsSpec == ConnsInit /\ [][ConnsNext]_vars

\* -------------------------------------------------------------------- C30
\* the connections that have been inserted in the map and not yet removed
Live == { c \in 1..Len(conns) : conns[c].st = "live" }

\* C30: two connections of one proxy process never get the same id, so the
\* map has one entry for every connection that was inserted and has not been
\* removed, and its size equals their number (and the counter).
C30_UniqueIds ==
  /\ \A c1 \in 1..Len(conns) : \A c2 \in 1..Len(conns) :
       (c1 # c2 /\ conns[c1].st # "accepted" /\ conns[c2].st # "accepted")
         => conns[c1].id # conns[c2].id
  /\ \A c \in Live : conns[c].id \in activeConnections
  /\ Cardinality(activeConnections) = Cardinality(Live)
  /\ ActiveConnectionsCount = Cardinality(activeConnections)

\* -------------------------------------------------------------------- C31
\* a call of NextObject
NextObjectStep == Len(scan') = Len(scan) + 1

Returned(i) == SubSeq(scan[i].buffer, scan[i].res.start + 1, scan[i].res.end + 1)

\* C32: every range NextObject returns as a value is one value of the
\* grammar: it begins with '{' or '[', every closer outside strings closes the
\* most recent unclosed opener and is of its kind, the last byte closes the
\* first, and no proper prefix is balanced.
C32_BalancedRanges ==
  \A i \in 1..Len(scan) :
    (scan[i].res.err = "nil" /\ scan[i].res.end # -1) => SingleValue(Returned(i))

\* the part of C32 that holds: a returned range begins with an opener, ends
\* with a closer, each kind of bracket is closed as often as it is opened
\* outside strings, and no proper prefix has both counts back at zero
C32_CountedRanges ==
  \A i \in 1..Len(scan) :
    (scan[i].res.err = "nil" /\ scan[i].res.end # -1) =>
      LET v == Returned(i) IN
        /\ v[1] \in {"{", "["} /\ v[Len(v)] \in {"}", "]"}
        /\ Closed(v, Len(v)) /\ NoStray(v, Len(v))
        /\ \A p \in 1..(Len(v) - 1) : ~Closed(v, p)

\* -------------------------------------------------------------------- C33
\* the splitter of d emits a value
EmitStep(d) == Len(emitted'[d]) = Len(emitted[d]) + 1

\* C33: an emission with its forward leaves the pending bytes
\* buffer[end+1 .. length) as the source delivered them: the bytes at the
\* front of the buffer after the compaction are the bytes that followed the
\* emitted value before the callback ran.
C33_ForwardLeavesBuffer ==
  [][\A d \in Directions :
       EmitStep(d) =>
         lexer'[d].buffer = SubSeq(lexer[d].buffer,
                                   lexer[d].length - lexer'[d].length + 1, lexer[d].length)]_vars

\* -------------------------------------------------------------------- C34
\* C34: during one run of DecodeAll errCb is called at most once, whatever
\* the stream and whatever the reader returns.
C34_ErrorOnce == Len(errs["lex"]) <= 1

\* -------------------------------------------------------------------- C35
\* the stream of the reader ends in whitespace only or inside a value: its
\* complete values are followed by bytes that ask for more
TruncatedTail ==
  LET s == src["lex"].stream IN RefSplit(s).ok /\ (RefSplit(s).open \/ WellFormed(s))

\* C35: when the reader reports EOF (with no bytes) while the buffer holds
\* only whitespace or an incomplete value, DecodeAll returns, the incomplete
\* bytes are not emitted and errCb is not called: for a stream of complete
\* values followed by whitespace or by the beginning of a value, exactly the
\* complete values have been emitted when DecodeAll has returned.
C35_TruncatedTail ==
  /\ [](( /\ TruncatedTail
          /\ src["lex"].mode = "eof"
          /\ dpc["lex"] = "returned" )
        => /\ emitted["lex"] = Values(src["lex"].stream)
           /\ errs["lex"] = << >>)
  /\ [][( /\ dpc["lex"] = "pbeof"
          /\ dpc'["lex"] # "pbeof"
          /\ lexer["lex"].length > 0
          /\ NextObject(lexer["lex"]).err = "nil"
          /\ NextObject(lexer["lex"]).end = -1 )
        => ( /\ dpc'["lex"] = "returned"
             /\ emitted'["lex"] = emitted["lex"]
             /\ errs'["lex"] = errs["lex"] )]_vars

\* DecodeAll has returned at the end of a stream whose second value is cut off
C35_Witness ==
  /\ src["lex"].stream = << "{", "}", "{" >>
  /\ src["lex"].mode = "eof"
  /\ dpc["lex"] = "returned"
  /\ emitted["lex"] = << << "{", "}" >> >>
  /\ lexer["lex"].buffer = << "{" >>
  /\ errs["lex"] = << >>

\* --------------------------------------------- buffers as deep as the counters

\* n times the byte c
Rep(c, n) == [i \in 1..n |-> c]

\* buffers with up to 2^8 + 2 openers of one kind
WrapStreams ==
  { Rep("{", Uint8 + 2),
    Rep("{", Uint8) \o << "[", "]" >>,
    Rep("[", Uint8) \o << "{", "}" >>,
    Rep("[", Uint8 - 1) \o Rep("]", Uint8 - 1),
    Rep("{", DefaultMaxDepth + 1) \o Rep("}", DefaultMaxDepth + 1) }

\* values of the limits: the defaults, the largest maxDepth of its type and
\* the smallest maxObjectLength that admits a value
WrapDepths == {DefaultMaxDepth, Uint8 - 1}
WrapObjectLengths == {1, DefaultMaxObjectLength}
\* the maxRead argument of NewJsonStreamLexer
WrapReads == {100, 129, 258}

\* a splitter whose limits were set as the tests set them (json_test.go:120)
WrapInit ==
  /\ InitCommon
  /\ listenerOpen = FALSE
  /\ hooks = FALSE
  /\ \E md \in WrapDepths, mo \in WrapObjectLengths, m \in WrapReads :
       lexer = [d \in Decoders |->
                  IF d = "lex"
                  THEN [NewJsonStreamLexer(BufferSize, m, FALSE)
                          EXCEPT !.maxDepth = md, !.maxObjectLength = mo]
                  ELSE NewJsonStreamLexer(BufferSize, MaxRead, FALSE)]
  /\ \E s \in WrapStreams :
       src = [d \in Decoders |->
                IF d = "lex" THEN [stream |-> s, pos |-> 0, mode |-> "open"] ELSE NoReader]

\* the test calls Read and the reader, which holds all its bytes, fills the
\* slice it is given (json_test.go:60, 121)
WrapRead ==
  /\ src["lex"].pos < Len(src["lex"].stream)
  /\ LET n == Min(lexer["lex"].maxRead, Len(src["lex"].stream) - src["lex"].pos) IN
       /\ lexer' = [lexer EXCEPT !["lex"] =
                      ReadOk(@, SubSeq(src["lex"].stream, src["lex"].pos + 1,
                                       src["lex"].pos + n))]
       /\ src' = [src EXCEPT !["lex"].pos = @ + n]
  /\ UNCHANGED << dpc, lastObjComplete, ctxDone, emitted, errs, tasks, writes, polls >>
  /\ UNCHANGED proxyVars

WrapNext == WrapRead \/ ScanNextObject

\* direct calls of Read and NextObject on buffers of more than 2^8 bytes
WrapSpec == WrapInit /\ [][WrapNext]_vars

\* -------------------------------------------------------------------- C36
\* C36: within one scan of NextObject the count of root objects never exceeds
\* 1, so with maxObjectLength >= 1 no call fails with "object count exceeds
\* maximum", whatever the buffer and the other limits.
C36_RootObjectCount ==
  \A i \in 1..Len(scan) :
    /\ scan[i].res.err # "object count exceeds maximum"
    /\ "s" \in DOMAIN ScanStateOf(scan[i].buffer)
         => ScanStateOf(scan[i].buffer).s.objectLength <= 1

\* -------------------------------------------------------------------- C38
\* the number of bytes c in v
Count(v, c) == Cardinality({ k \in 1..Len(v) : v[k] = c })

\* the buffer b begins with more than n bytes c
Opens(b, c, n) == Len(b) > n /\ \A k \in 1..(n + 1) : b[k] = c

\* C38: the depth counters do not wrap, for every value of maxDepth up to the
\* largest of its type: a buffer that begins with more than maxDepth openers
\* of one kind fails with the depth error, and a range returned as a value
\* closes every bracket it opens (the buffers have no strings).
C38_NoWrap ==
  \A i \in 1..Len(scan) :
    LET b == scan[i].buffer
        r == scan[i].res
    IN /\ Opens(b, "{", lexer["lex"].maxDepth) => r.err = "object exceeds maximum depth"
       /\ Opens(b, "[", lexer["lex"].maxDepth) => r.err = "array exceeds maximum depth"
       /\ (r.err = "nil" /\ r.end # -1)
            => /\ Count(Returned(i), "{") = Count(Returned(i), "}")
               /\ Count(Returned(i), "[") = Count(Returned(i), "]")

\* -------------------------------------------------------------------- C37
\* connection c enters the pump / leaves it
Enters(c) == c \in 1..Len(conns) /\ conns[c].st = "accepted" /\ conns'[c].st = "live"
Leaves(c) == c \in 1..Len(conns) /\ conns[c].st = "live" /\ conns'[c].st = "done"

\* C37: the counter is incremented by one exactly when a connection enters
\* the pump and decremented by one exactly when a connection that entered it
\* leaves it, under every interleaving of the handlers; it equals the number
\* of connections in the pump, is never negative, and is back at 0 when every
\* handler has finished.
C37_Counter ==
  /\ [](/\ ActiveConnectionsCount = Cardinality(Live)
        /\ ActiveConnectionsCount >= 0
        /\ (\A c \in 1..Len(conns) : conns[c].st \in {"done", "failed"})
             => ActiveConnectionsCount = 0)
  /\ [][/\ ActiveConnectionsCount' = ActiveConnectionsCount + 1
             <=> \E c \in 1..MaxConns : Enters(c)
        /\ ActiveConnectionsCount' = ActiveConnectionsCount - 1
             <=> \E c \in 1..MaxConns : Leaves(c)
        /\ ActiveConnectionsCount' - ActiveConnectionsCount \in {-1, 0, 1}
        /\ \A c \in 1..Len(conns) : conns[c].st \in {"done", "failed"} => conns'[c] = conns[c]]_vars

\* three handlers have finished, two after the pump and one on a failed
\* dial, and the counter is back at 0
C37_Witness ==
  /\ Len(conns) = 3
  /\ conns[1].st = "done"
  /\ conns[2].st = "failed"
  /\ conns[3].st = "done"
  /\ conns[1].id = conns[3].id
  /\ ActiveConnectionsCount = 0

\* -------------------------------------------------------------------- C39
\* what the peers of a connection send before Shutdown is called
ShutdownStreams ==
  { << >>, << "{", "}" >>, << "}" >>, << "{" >>, << "{", "}", "{", "}" >> }

\* Listen (proxy.go:49-54, 129-174), with the bytes the peers will send
ShutdownInit ==
  /\ InitCommon
  /\ listenerOpen = TRUE
  /\ hooks = FALSE
  /\ \E a \in BOOLEAN :
       lexer = [d \in Decoders |-> NewJsonStreamLexer(BufferSize, MaxRead, a)]
  /\ \E sc \in ShutdownStreams, su \in {<< >>, << "{", "}" >>},
        mc \in SocketModes, mu \in SocketModes :
       src = [d \in Decoders |->
                IF d = "client" THEN [stream |-> sc, pos |-> 0, mode |-> mc]
                ELSE IF d = "upstream" THEN [stream |-> su, pos |-> 0, mode |-> mu]
                ELSE NoReader]

ShutdownNext == Next \/ Shutdown

\* one connection of the proxy with Shutdown, under the scheduling of FairSpec
ShutdownFairSpec ==
  /\ ShutdownInit /\ [][ShutdownNext]_vars
  /\ WF_vars(HandleConnectionStart \/ HandleConnectionDialFail \/ HandleConnectionFinish)
  /\ \A d \in Directions :
       WF_vars(DecodeAll(d) \/ PBEmitAsync(d) \/ CbStart(d) \/ CbEnd(d))

\* Shutdown found the connection in the map and closed its sockets
ShutDown == ~listenerOpen /\ sockClosed["client"] /\ sockClosed["upstream"]

\* C39: Shutdown closes the listener, so no connection is accepted any more,
\* and both sockets of the connection that is in the map; that connection is
\* then eventually removed from the map and the counter decremented, whatever
\* its two directions were doing.
C39_Shutdown ==
  /\ [][(listenerOpen /\ ~listenerOpen')
          => (ConnID \in activeConnections => ShutDown')]_vars
  /\ [][~listenerOpen => (~listenerOpen' /\ (hpc = "idle" => hpc' = "idle"))]_vars
  /\ ShutDown ~> (ConnID \notin activeConnections /\ ActiveConnectionsCount = 0)


\* -------------------------------------------------------------------- C40
\* the outcomes a and b are the same: the same (start, end) on success, both
\* asking for more bytes with the same start, or both an error
SameOutcome(a, b) ==
  IF a.err = "nil" \/ b.err = "nil"
  THEN a.err = b.err /\ a.start = b.start /\ a.end = b.end
  ELSE TRUE

\* C40: on every splitter (buffer content, cursor, limits) the NextObject
\* built on skipWhitespace / findStructuralChar / scanString returns the same
\* outcome as the byte-loop NextObject: the same (start, end) on success,
\* need-more on the same inputs, an error on the same inputs.
C40_PrimitiveEquivalence ==
  \A i \in 1..Len(scan) : SameOutcome(scan[i].prim, scan[i].res)

\* the part of C40 that holds: the two agree as long as no value start is in
\* the buffer (only whitespace: both ask for more bytes at the cursor; another
\* first byte: both fail)
C40_SameBeforeStart ==
  \A i \in 1..Len(scan) :
    (\A k \in 1..Len(scan[i].buffer) : scan[i].buffer[k] \notin {"{", "["})
      => SameOutcome(scan[i].prim, scan[i].res)

\* the buffer '{}' under the default depth limit: the byte loop returns the
\* range (0, 1), the primitive-based loop stays on the '{' and fails
C40_Diverges ==
  /\ Len(scan) >= 1
  /\ scan[1].buffer = << "{", "}" >>
  /\ lexer["lex"].maxDepth = DefaultMaxDepth
  /\ scan[1].res = ResOk(0, 1)
  /\ scan[1].prim = ResErr("object exceeds maximum depth", DefaultMaxDepth)

====
